---- MODULE Spec2Model ----
(***************************************************************************)
(* Model of the Giga serial driver (src/src/arduino.rs, serial.rs,         *)
(* model.rs): frame codec (CRC-16/USB, COBS, CBOR payload), the receive    *)
(* state machine of Giga::listen / Giga::process_normal_byte, and the      *)
(* port open/retry loop.                                                   *)
(*                                                                         *)
(* Bytes are integers 0..255, byte strings are sequences of bytes.         *)
(***************************************************************************)
EXTENDS Integers, Sequences, FiniteSets, TLC

(***************************************************************************)
(* Program constants                                                       *)
(***************************************************************************)
START_BYTE == 126
MAX_DATA_LEN == 1024
BAUD == 460800
ElapsedCap == 100

(* "[DEBUG]" *)
debug_sequence == <<91, 68, 69, 66, 85, 71, 93>>

(***************************************************************************)
(* model.rs: Action / Command and their u8 conversions                    *)
(***************************************************************************)
Actions == {"SEND", "READ", "GIGA", "NONE"}
Commands == {"NONE", "ACK", "NACK", "MOTOR", "SetID", "FILE", "Sensor", "SensorLOW"}

ActionAsU8(a) ==
  CASE a = "SEND" -> 170
    [] a = "READ" -> 168
    [] a = "GIGA" -> 174
    [] a = "NONE" -> 0

CommandAsU8(c) ==
  CASE c = "NONE" -> 0
    [] c = "ACK" -> 1
    [] c = "NACK" -> 2
    [] c = "MOTOR" -> 3
    [] c = "SetID" -> 4
    [] c = "FILE" -> 5
    [] c = "Sensor" -> 6
    [] c = "SensorLOW" -> 7

(* Action::try_from(value): Ok(member) or Err *)
ActionTryFrom(value) ==
  CASE value = 170 -> [ok |-> TRUE, v |-> "SEND"]
    [] value = 168 -> [ok |-> TRUE, v |-> "READ"]
    [] value = 174 -> [ok |-> TRUE, v |-> "GIGA"]
    [] value = 0 -> [ok |-> TRUE, v |-> "NONE"]
    [] OTHER -> [ok |-> FALSE, v |-> "Invalid CMD Byte"]

(* a variant that does not know the last member *)
CommandTryFromShort(value) ==
  CASE value = 0 -> [ok |-> TRUE, v |-> "NONE"]
    [] value = 1 -> [ok |-> TRUE, v |-> "ACK"]
    [] value = 2 -> [ok |-> TRUE, v |-> "NACK"]
    [] value = 3 -> [ok |-> TRUE, v |-> "MOTOR"]
    [] value = 4 -> [ok |-> TRUE, v |-> "SetID"]
    [] value = 5 -> [ok |-> TRUE, v |-> "FILE"]
    [] value = 6 -> [ok |-> TRUE, v |-> "Sensor"]
    [] OTHER -> [ok |-> FALSE, v |-> "Invalid Command Byte"]

(* Command::try_from(value): Ok(member) or Err *)
CommandTryFrom(value) ==
  CASE value = 0 -> [ok |-> TRUE, v |-> "NONE"]
    [] value = 1 -> [ok |-> TRUE, v |-> "ACK"]
    [] value = 2 -> [ok |-> TRUE, v |-> "NACK"]
    [] value = 3 -> [ok |-> TRUE, v |-> "MOTOR"]
    [] value = 4 -> [ok |-> TRUE, v |-> "SetID"]
    [] value = 5 -> [ok |-> TRUE, v |-> "FILE"]
    [] value = 6 -> [ok |-> TRUE, v |-> "Sensor"]
    [] value = 7 -> [ok |-> TRUE, v |-> "SensorLOW"]
    [] OTHER -> [ok |-> FALSE, v |-> "Invalid Command Byte"]

(***************************************************************************)
(* Byte-string helpers                                                     *)
(***************************************************************************)
Pow2(k) == 2 ^ k

BitOf(x, k) == (x \div Pow2(k)) % 2

FlipBit(x, k) == IF BitOf(x, k) = 1 THEN x - Pow2(k) ELSE x + Pow2(k)

(* s[from..to) with 0-based Rust indices; the caller has bounds-checked *)
Slice(s, from, to) == SubSeq(s, from + 1, to)

Zeros(n) == [i \in 1..n |-> 0]

(* a variant that saturates at 0xFFFF instead of wrapping *)
U16ToLeBytesSaturating(n) ==
  IF n > 65535 THEN <<255, 255>> ELSE <<n % 256, n \div 256>>

(* u16::to_le_bytes of (n as u16) *)
U16ToLeBytes(n) == <<(n % 65536) % 256, (n % 65536) \div 256>>

(* u16::from_le_bytes *)
U16FromLeBytes(b) == b[1] + 256 * b[2]

(***************************************************************************)
(* CRC16 = Crc::<u16>::new(&CRC_16_USB): poly 0x8005 reflected (0xA001),  *)
(* init 0xFFFF, refin/refout, xorout 0xFFFF.                               *)
(***************************************************************************)
CrcXorPoly(x) == FlipBit(FlipBit(FlipBit(x, 0), 13), 15)

CrcBit(crc, bit) ==
  IF (crc + bit) % 2 = 1 THEN CrcXorPoly(crc \div 2) ELSE crc \div 2

RECURSIVE CrcByte(_, _, _)
CrcByte(crc, byte, k) ==
  IF k = 8 THEN crc ELSE CrcByte(CrcBit(crc, BitOf(byte, k)), byte, k + 1)

(* The folds below split the range in two halves so that the evaluation   *)
(* depth stays logarithmic in the length of the byte string.               *)
RECURSIVE CrcUpdate(_, _, _, _)
CrcUpdate(crc, bytes, lo, hi) ==
  IF lo > hi THEN crc
  ELSE IF lo = hi THEN CrcByte(crc, bytes[lo], 0)
  ELSE LET mid == (lo + hi) \div 2
           c == CrcUpdate(crc, bytes, lo, mid) IN
       IF c < 0 THEN c ELSE CrcUpdate(c, bytes, mid + 1, hi)

CRC16_checksum(bytes) == 65535 - CrcUpdate(65535, bytes, 1, Len(bytes))

(***************************************************************************)
(* cobs::encode / cobs::decode (sentinel 0)                                *)
(***************************************************************************)
(* Encoder state: out = finished blocks, blk = data bytes of the open      *)
(* block. A block is closed by a zero or when it holds 254 data bytes.     *)
CobsEncPush(st, byte) ==
  IF byte = 0 THEN [out |-> st.out \o <<Len(st.blk) + 1>> \o st.blk, blk |-> <<>>]
  ELSE IF Len(st.blk) = 253
       THEN [out |-> st.out \o <<255>> \o st.blk \o <<byte>>, blk |-> <<>>]
       ELSE [out |-> st.out, blk |-> Append(st.blk, byte)]

RECURSIVE CobsEncFold(_, _, _, _)
CobsEncFold(st, src, lo, hi) ==
  IF lo > hi THEN st
  ELSE IF lo = hi THEN CobsEncPush(st, src[lo])
  ELSE LET mid == (lo + hi) \div 2
           m == CobsEncFold(st, src, lo, mid) IN
       IF Len(m.out) < 0 THEN m ELSE CobsEncFold(m, src, mid + 1, hi)

CobsEncoding(src) ==
  LET st == CobsEncFold([out |-> <<>>, blk |-> <<>>], src, 1, Len(src)) IN
  st.out \o <<Len(st.blk) + 1>> \o st.blk

(* encode(source, dest) -> usize; panics when dest is too small *)
cobs_encode(source, dest_len) ==
  LET enc == CobsEncoding(source) IN
  IF Len(enc) > dest_len
  THEN [panic |-> TRUE, dest |-> <<>>, size |-> 0]
  ELSE [panic |-> FALSE, dest |-> enc \o Zeros(dest_len - Len(enc)), size |-> Len(enc)]

(* Decoder state: s = "idle" (no code byte yet), "grab" (copying a block), *)
(* "done", "err"; grab = data bytes left in the block; chain = the block   *)
(* was opened by code 0xFF, so no zero is emitted at its end; cap = size   *)
(* of the destination buffer.                                              *)
CobsDecFeed(st, byte) ==
  CASE st.s = "done" \/ st.s = "err" -> st
    [] st.s = "idle" ->
         IF byte = 0 THEN st
         ELSE [st EXCEPT !.s = "grab", !.grab = byte - 1, !.chain = (byte = 255)]
    [] st.s = "grab" /\ st.grab = 0 ->
         IF byte = 0 THEN [st EXCEPT !.s = "done"]
         ELSE IF st.chain
              THEN [st EXCEPT !.grab = byte - 1, !.chain = (byte = 255)]
              ELSE IF Len(st.out) + 1 > st.cap THEN [st EXCEPT !.s = "err"]
                   ELSE [st EXCEPT !.out = Append(st.out, 0), !.grab = byte - 1,
                                   !.chain = (byte = 255)]
    [] OTHER ->
         IF byte = 0 THEN [st EXCEPT !.s = "err"]
         ELSE IF Len(st.out) + 1 > st.cap THEN [st EXCEPT !.s = "err"]
              ELSE [st EXCEPT !.out = Append(st.out, byte), !.grab = st.grab - 1]

RECURSIVE CobsDecFold(_, _, _, _)
CobsDecFold(st, src, lo, hi) ==
  IF lo > hi THEN st
  ELSE IF lo = hi THEN CobsDecFeed(st, src[lo])
  ELSE LET mid == (lo + hi) \div 2
           m == CobsDecFold(st, src, lo, mid) IN
       IF m.s \in {"done", "err"} THEN m ELSE CobsDecFold(m, src, mid + 1, hi)

(* decode(source, dest) -> Result<DecodeReport, DecodeError>: the source   *)
(* is consumed up to its first zero; a source that ends without one is     *)
(* closed by an implicit sentinel. dest is the caller's whole buffer,      *)
(* zero-filled behind the frame_size decoded bytes.                        *)
cobs_decode(source, dest_len) ==
  LET st0 == [s |-> "idle", out |-> <<>>, grab |-> 0, chain |-> FALSE, cap |-> dest_len]
      st1 == CobsDecFold(st0, source, 1, Len(source))
      st2 == CobsDecFeed(st1, 0) IN
  IF st2.s = "done"
  THEN [ok |-> TRUE, dest |-> st2.out \o Zeros(dest_len - Len(st2.out)),
        frame_size |-> Len(st2.out)]
  ELSE [ok |-> FALSE, dest |-> <<>>, frame_size |-> 0]

(***************************************************************************)
(* serde_cbor::from_slice::<HashMap<String, Value>>                        *)
(*                                                                         *)
(* A CBOR value is a record [t, n, s]: t the kind ("uint", "nint",         *)
(* "bytes", "text", "array", "map", "bool", "null", "float"), n its        *)
(* number (the bool as 0/1), s its bytes, items, or [k, v] entries in      *)
(* declared order. The parser covers definite-length items; an             *)
(* indefinite-length head (additional information 31) and a text string    *)
(* holding a byte above 0x7F are reported as errors. Arguments wider than  *)
(* the model's integers saturate at CborHuge.                              *)
(***************************************************************************)
CborHuge == 16777216

CborVal(t, n, s) == [t |-> t, n |-> n, s |-> s]

CborErr == [ok |-> FALSE, next |-> 0, val |-> CborVal("null", 0, <<>>)]

CborSat(x) == IF x > CborHuge THEN CborHuge ELSE x

(* number of argument bytes that follow an initial byte, -1 if reserved *)
CborArgLen(ai) ==
  CASE ai < 24 -> 0
    [] ai = 24 -> 1
    [] ai = 25 -> 2
    [] ai = 26 -> 4
    [] ai = 27 -> 8
    [] OTHER -> -1

RECURSIVE CborBigEndian(_, _, _, _)
CborBigEndian(b, p, n, acc) ==
  IF n = 0 THEN acc ELSE CborBigEndian(b, p + 1, n - 1, CborSat(acc * 256 + b[p]))

RECURSIVE CborItem(_, _)
RECURSIVE CborItems(_, _, _, _)
RECURSIVE CborPairs(_, _, _, _)

(* one data item starting at b[p] *)
CborItem(b, p) ==
  IF p > Len(b) THEN CborErr
  ELSE
  LET major == b[p] \div 32
      ai == b[p] % 32
      alen == CborArgLen(ai)
  IN
  IF alen < 0 \/ p + alen > Len(b) THEN CborErr
  ELSE
  LET arg == IF alen = 0 THEN ai ELSE CborBigEndian(b, p + 1, alen, 0)
      q == p + 1 + alen
  IN
  CASE major = 0 -> [ok |-> TRUE, next |-> q, val |-> CborVal("uint", arg, <<>>)]
    [] major = 1 -> [ok |-> TRUE, next |-> q, val |-> CborVal("nint", arg, <<>>)]
    [] major = 2 ->
         IF q + arg - 1 > Len(b) THEN CborErr
         ELSE [ok |-> TRUE, next |-> q + arg,
               val |-> CborVal("bytes", 0, SubSeq(b, q, q + arg - 1))]
    [] major = 3 ->
         IF q + arg - 1 > Len(b) THEN CborErr
         ELSE IF \E i \in q..(q + arg - 1) : b[i] > 127 THEN CborErr
         ELSE [ok |-> TRUE, next |-> q + arg,
               val |-> CborVal("text", 0, SubSeq(b, q, q + arg - 1))]
    [] major = 4 -> CborItems(b, q, arg, <<>>)
    [] major = 5 -> CborPairs(b, q, arg, <<>>)
    [] major = 6 -> CborItem(b, q)
    [] OTHER ->
         CASE ai = 20 -> [ok |-> TRUE, next |-> q, val |-> CborVal("bool", 0, <<>>)]
           [] ai = 21 -> [ok |-> TRUE, next |-> q, val |-> CborVal("bool", 1, <<>>)]
           [] ai = 22 \/ ai = 23 -> [ok |-> TRUE, next |-> q, val |-> CborVal("null", 0, <<>>)]
           [] ai \in {25, 26, 27} ->
                [ok |-> TRUE, next |-> q, val |-> CborVal("float", 0, SubSeq(b, p + 1, q - 1))]
           [] OTHER -> CborErr

(* n array items starting at b[p] *)
CborItems(b, p, n, acc) ==
  IF n = 0 THEN [ok |-> TRUE, next |-> p, val |-> CborVal("array", 0, acc)]
  ELSE LET it == CborItem(b, p) IN
       IF ~it.ok THEN CborErr ELSE CborItems(b, it.next, n - 1, Append(acc, it.val))

(* n map entries starting at b[p] *)
CborPairs(b, p, n, acc) ==
  IF n = 0 THEN [ok |-> TRUE, next |-> p, val |-> CborVal("map", 0, acc)]
  ELSE LET k == CborItem(b, p) IN
       IF ~k.ok THEN CborErr
       ELSE LET v == CborItem(b, k.next) IN
            IF ~v.ok THEN CborErr
            ELSE CborPairs(b, v.next, n - 1, Append(acc, [k |-> k.val, v |-> v.val]))

(* HashMap insertion: a later entry with the same key replaces the value   *)
RECURSIVE HashMapCollect(_, _, _)
HashMapCollect(entries, i, acc) ==
  IF i > Len(entries) THEN acc
  ELSE LET e == [k |-> entries[i].k.s, v |-> entries[i].v]
           kept == SelectSeq(acc, LAMBDA x : x.k # e.k)
       IN HashMapCollect(entries, i + 1, Append(kept, e))

(* from_slice::<HashMap<String, Value>>(bytes): the whole slice must be    *)
(* one map whose keys are strings; map |-> entries [k |-> key bytes, v]    *)
serde_cbor_from_slice(bytes) ==
  LET it == CborItem(bytes, 1) IN
  IF ~it.ok \/ it.val.t # "map" \/ it.next # Len(bytes) + 1
  THEN [ok |-> FALSE, map |-> <<>>]
  ELSE IF \E i \in 1..Len(it.val.s) : it.val.s[i].k.t \notin {"text", "bytes"}
       THEN [ok |-> FALSE, map |-> <<>>]
       ELSE [ok |-> TRUE, map |-> HashMapCollect(it.val.s, 1, <<>>)]

(* HashMap::get(key) on the collected entries *)
HashMapGet(map, key) ==
  IF \E i \in 1..Len(map) : map[i].k = key
  THEN [some |-> TRUE, v |-> map[CHOOSE i \in 1..Len(map) : map[i].k = key].v]
  ELSE [some |-> FALSE, v |-> CborVal("null", 0, <<>>)]

(* BTreeMap<Value, Value>::get(&Value::Text(key)) on a nested map value    *)
ValueMapGet(entries, key) ==
  LET hits == {i \in 1..Len(entries) : entries[i].k.t = "text" /\ entries[i].k.s = key} IN
  IF hits = {} THEN [some |-> FALSE, v |-> CborVal("null", 0, <<>>)]
  ELSE [some |-> TRUE, v |-> entries[CHOOSE i \in hits : \A j \in hits : j <= i].v]

(***************************************************************************)
(* Giga::build_frame / build_cobs_frame / decode_message                   *)
(***************************************************************************)
(* build_frame(action, command, payload) -> (frame, crc) *)
build_frame(action, command, payload) ==
  LET head == <<START_BYTE, ActionAsU8(action), CommandAsU8(command)>>
              \o U16ToLeBytes(Len(payload)) \o payload
      crc == CRC16_checksum(Slice(head, 3, Len(head)))
  IN [frame |-> head \o U16ToLeBytes(crc), crc |-> crc]

(* a variant with crc_skip_bytes = 0: the CRC covers action and command *)
build_cobs_frame_skip0(action, command, payload) ==
  LET head == <<ActionAsU8(action), CommandAsU8(command)>>
              \o U16ToLeBytes(Len(payload)) \o payload
      crc == CRC16_checksum(head)
      frame == head \o U16ToLeBytes(crc)
      enc == cobs_encode(frame, Len(frame) + 1)
  IN [panic |-> enc.panic, encoded_frame |-> enc.dest, encoded_size |-> enc.size,
      crc |-> crc]

(* build_cobs_frame(action, command, payload) ->                           *)
(*   (encoded_frame, encoded_size, crc), or a panic inside cobs::encode    *)
build_cobs_frame(action, command, payload) ==
  LET crc_skip_bytes == 2
      head == <<ActionAsU8(action), CommandAsU8(command)>>
              \o U16ToLeBytes(Len(payload)) \o payload
      crc == CRC16_checksum(Slice(head, crc_skip_bytes, Len(head)))
      frame == head \o U16ToLeBytes(crc)
      enc == cobs_encode(frame, Len(frame) + 1)
  IN [panic |-> enc.panic, encoded_frame |-> enc.dest, encoded_size |-> enc.size,
      crc |-> crc]

NoMessage ==
  [action |-> "NONE", command |-> "NONE", payload_size_bytes |-> <<>>,
   payload_size |-> 0, payload_bytes |-> <<>>, payload |-> <<>>,
   crc_bytes |-> <<>>, crc |-> 0]

DecodeErr(kind) == [tag |-> kind, msg |-> NoMessage]

(* a variant that checks the CRC over action and command as well *)
DecodeCrcRangeWithHeader(frame) == Slice(frame, 0, Len(frame) - 2)

(* the range frame[2..frame_size - 2] the received CRC is compared with *)
DecodeCrcRange(frame) == Slice(frame, 2, Len(frame) - 2)

(* decode_message(frame) -> Result<Message, Error>; tag is "Ok", the error *)
(* ("ShortFrame", "CBORDecode", "CRCMismatch") or "Panic" for the slice    *)
(* frame[4..4 + payload_size] running past the frame                       *)
decode_message(frame) ==
  LET frame_size == Len(frame) IN
  IF frame_size < 6 THEN DecodeErr("ShortFrame")
  ELSE
  LET a == ActionTryFrom(frame[1])
      action == IF a.ok THEN a.v ELSE "NONE"
      c == CommandTryFrom(frame[2])
      command == IF c.ok THEN c.v ELSE "NONE"
      payload_size_bytes == <<frame[3], frame[4]>>
      payload_size == U16FromLeBytes(payload_size_bytes)
  IN
  IF 4 + payload_size > frame_size THEN DecodeErr("Panic")
  ELSE
  LET payload_bytes == Slice(frame, 4, 4 + payload_size)
      payload == serde_cbor_from_slice(payload_bytes)
  IN
  IF ~payload.ok THEN DecodeErr("CBORDecode")
  ELSE
  LET crc_bytes == Slice(frame, frame_size - 2, frame_size)
      crc == U16FromLeBytes(crc_bytes)
      calc_crc == CRC16_checksum(DecodeCrcRange(frame))
  IN
  IF crc # calc_crc THEN DecodeErr("CRCMismatch")
  ELSE [tag |-> "Ok",
        msg |-> [action |-> action, command |-> command,
                 payload_size_bytes |-> payload_size_bytes,
                 payload_size |-> payload_size,
                 payload_bytes |-> payload_bytes,
                 payload |-> payload.map,
                 crc_bytes |-> crc_bytes, crc |-> crc]]

(***************************************************************************)
(* State                                                                   *)
(***************************************************************************)
VARIABLES
  pc,                        \* "new", "listen", "reopen", "new_failed", "returned", "panicked", "codec"
  port_name,                 \* Giga.port_name
  baud_rate,                 \* Giga.baud_rate
  timeout,                   \* Giga.timeout, seconds
  max_retries,               \* Giga.max_retries
  sensor_monitor,            \* Giga.sensor_monitor
  port,                      \* Giga.port: ordinal of the handle held, 0 = none
  retries,                   \* open_serial_port: retries
  attempts,                  \* open attempts made by the running open_serial_port call
  buffer,                    \* Giga.buffer[0..idx]
  idx,                       \* Giga.idx
  buffer_receive_start_time, \* Giga.buffer_receive_start_time
  is_triggered,              \* Giga.is_triggered
  buffer_started,            \* listen: buffer_started
  receive_buf_elapsed_list,  \* listen: receive_buf_elapsed_list
  process_buf_elapsed_list,  \* listen: process_buf_elapsed_list
  receive_state,             \* listen: receive_state, [s, k]
  debug_output,              \* listen: debug_output
  scenario,                  \* what the device sends in this run
  stream,                    \* bytes the device still has to deliver
  now,                       \* clock: bytes read so far
  written,                   \* frames handed to port.write_all, in order
  delivered,                 \* decoded messages, in order
  diag,                      \* diagnostic lines emitted, in order
  cobs_log,                  \* byte runs handed to cobs decode, in order
  event,                     \* what the last step was
  err,                       \* error listen or new returned with
  n_timeouts,                \* read timeouts so far
  n_ioerrors,                \* read errors so far
  c_action, c_command, c_payload, \* codec run: inputs
  c_stage,                   \* codec run: step reached
  c_built,                   \* codec run: build_cobs_frame result
  c_raw,                     \* codec run: build_frame result
  c_frame,                   \* codec run: inner record handed to decode_message
  c_result,                  \* codec run: decode_message result
  c_flip,                    \* codec run: bit changed in c_frame, <<byte, bit>> or <<>>
  len_bytes,                 \* GigaCommunicate.len_bytes
  crc_bytes,                 \* GigaCommunicate.crc_bytes
  payload_size               \* GigaCommunicate.payload_size

vars == <<pc, port_name, baud_rate, timeout, max_retries, sensor_monitor, port, retries, attempts, buffer, idx,
          buffer_receive_start_time, is_triggered, buffer_started,
          receive_buf_elapsed_list, process_buf_elapsed_list, receive_state,
          debug_output, scenario, stream, now, written, delivered, diag, cobs_log, event, err,
          n_timeouts, n_ioerrors,
          c_action, c_command, c_payload, c_stage, c_built, c_raw, c_frame, c_result,
          c_flip, len_bytes, crc_bytes, payload_size>>

portVars == <<port, retries, attempts>>

recvVars == <<buffer, idx, buffer_receive_start_time, is_triggered, buffer_started,
              receive_buf_elapsed_list, process_buf_elapsed_list, receive_state,
              debug_output>>

outVars == <<written, delivered, diag, cobs_log>>

cfgVars == <<port_name, baud_rate, timeout, max_retries, sensor_monitor>>

legacyVars == <<len_bytes, crc_bytes, payload_size>>

(* the length and CRC fields as new() and reset() leave them *)
LegacyIdle == len_bytes = <<0, 0>> /\ crc_bytes = <<0, 0>> /\ payload_size = 0

(* the configuration main hands to the session: the default port, BAUD and *)
(* the default read timeout of one second                                  *)
PortConfig == port_name = "COM5" /\ baud_rate = BAUD /\ timeout = 1

codecVars == <<c_action, c_command, c_payload, c_stage, c_built, c_raw, c_frame,
               c_result, c_flip>>

envVars == <<scenario, stream, now, n_timeouts, n_ioerrors>>

(***************************************************************************)
(* Bounds of the model                                                     *)
(***************************************************************************)
MaxRetries == 1
MaxTimeouts == 1
MaxIoErrors == 1
MaxMapEntries == 2
MaxFrames == 2
LongTextLen == 250
MaxOverRun == 2
MaxOverCap == 2
MaxExtraDelims == 2
MaxDebugText == 2

(***************************************************************************)
(* Giga::send_cobs_motor: the two Motion records, serialised               *)
(***************************************************************************)
(* serde_cbor::to_vec(&vec![m1, m2]) *)
MotorPayloadCbor ==
  <<130, 174, 100, 110, 97, 109, 101, 99, 80, 77, 116, 98, 105, 100, 5, 102, 109,
    111, 116, 105, 111, 110, 1, 101, 115, 112, 101, 101, 100, 24, 100, 99, 116, 111,
    108, 5, 100, 100, 105, 115, 116, 25, 7, 208, 101, 97, 110, 103, 108, 101, 24,
    100, 100, 116, 105, 109, 101, 25, 19, 136, 99, 97, 99, 99, 25, 1, 44, 101, 110,
    101, 119, 105, 100, 0, 100, 118, 111, 108, 116, 249, 74, 0, 99, 97, 109, 112,
    249, 56, 0, 100, 116, 101, 109, 112, 249, 78, 64, 100, 109, 111, 100, 101, 0,
    174, 100, 110, 97, 109, 101, 99, 80, 77, 98, 98, 105, 100, 4, 102, 109, 111,
    116, 105, 111, 110, 1, 101, 115, 112, 101, 101, 100, 24, 100, 99, 116, 111, 108,
    2, 100, 100, 105, 115, 116, 25, 7, 108, 101, 97, 110, 103, 108, 101, 24, 60,
    100, 116, 105, 109, 101, 25, 15, 160, 99, 97, 99, 99, 25, 1, 144, 101, 110, 101,
    119, 105, 100, 0, 100, 118, 111, 108, 116, 249, 74, 0, 99, 97, 109, 112, 250,
    63, 25, 153, 154, 100, 116, 101, 109, 112, 249, 78, 128, 100, 109, 111, 100,
    101, 0>>

(* build_cobs_frame(action, command, &payload_cbor) for the fixed payload *)
MotorCobsFrames ==
  [a \in Actions |-> [c \in Commands |-> build_cobs_frame(a, c, MotorPayloadCbor)]]

(* the fields of struct Giga *)
GigaFields ==
  {"port_name", "baud_rate", "timeout", "max_retries", "debug", "show_byte",
   "sensor_monitor", "port", "buffer", "buffer_receive_start_time",
   "buffer_process_start_time", "info_msg_buf", "debug_msg_buf", "idx",
   "len_bytes", "crc_bytes", "payload_size", "is_triggered"}

(***************************************************************************)
(* The receiver as a function of its state                                 *)
(*                                                                         *)
(* g is the record of the fields the receive path reads and writes; res is *)
(* "Ok" while the handler runs on, else the error it returned with         *)
(* ("COBSDecode", "ShortFrame", "CBORDecode", "CRCMismatch", "Write") or   *)
(* "Panic" (a slice out of range), "OutOfBounds" (buffer[idx] with idx     *)
(* past the buffer). The inputs of a step are the clock t, wok (the port accepts a  *)
(* write) and ord (the order in which HashMap::keys visits the entries).   *)
(***************************************************************************)
Self ==
  [buffer |-> buffer, idx |-> idx,
   buffer_receive_start_time |-> buffer_receive_start_time,
   is_triggered |-> is_triggered, buffer_started |-> buffer_started,
   receive_buf_elapsed_list |-> receive_buf_elapsed_list,
   process_buf_elapsed_list |-> process_buf_elapsed_list,
   receive_state |-> receive_state, debug_output |-> debug_output,
   written |-> written, delivered |-> delivered, diag |-> diag,
   cobs_log |-> cobs_log, res |-> "Ok"]

(* Giga::reset *)
reset(g) == [g EXCEPT !.buffer = <<>>, !.idx = 0]

(* a variant in which a failed write also empties the reassembly buffer *)
send_failure_clears(g, frame, wok) ==
  IF wok THEN [g EXCEPT !.written = Append(g.written, frame), !.res = "Ok"]
  ELSE [g EXCEPT !.written = Append(g.written, frame), !.res = "Write",
                 !.buffer = <<>>, !.idx = 0]

(* Giga::send: write_all + flush; the frame is handed to the port, and the *)
(* call fails when the port does not accept it                             *)
send(g, frame, wok) ==
  [g EXCEPT !.written = Append(g.written, frame),
            !.res = IF wok THEN "Ok" ELSE "Write"]

(* Giga::send_cobs_motor *)
send_cobs_motor(g, action, command, wok) ==
  LET built == MotorCobsFrames[action][command] IN
  IF built.panic THEN [g EXCEPT !.res = "Panic"]
  ELSE send(g, <<0>> \o built.encoded_frame \o <<0>>, wok)

(* a variant that drops the new sample when the list is full *)
PushElapsedDropNewest(list, sample) ==
  IF Len(list) >= ElapsedCap THEN list ELSE Append(list, sample)

(* push onto an elapsed list, dropping the oldest above the cap *)
PushElapsed(list, sample) ==
  LET l == Append(list, sample) IN
  IF Len(l) > ElapsedCap THEN Tail(l) ELSE l

TriggeredKey == <<116, 114, 105, 103, 103, 101, 114, 101, 100>>

(* HashMap::keys(): the entries in the order ord ranks them *)
KeysOrder(map, ord) ==
  SelectSeq(ord, LAMBDA i : i <= Len(map))
  \o [j \in 1..(IF Len(map) > Len(ord) THEN Len(map) - Len(ord) ELSE 0) |-> Len(ord) + j]

(* the loop over payload.keys(): r = [trig, matched, stop] *)
RECURSIVE MotorTriggerLoop(_, _, _, _)
MotorTriggerLoop(map, keys, i, r) ==
  IF i > Len(keys) \/ r.stop THEN r
  ELSE LET v == map[keys[i]].v IN
       IF v.t # "map" THEN MotorTriggerLoop(map, keys, i + 1, r)
       ELSE LET t == ValueMapGet(v.s, TriggeredKey) IN
            IF t.some /\ t.v.t = "bool"
            THEN MotorTriggerLoop(map, keys, i + 1,
                                  [trig |-> (t.v.n = 1), matched |-> TRUE, stop |-> FALSE])
            ELSE [r EXCEPT !.stop = TRUE]

(* a variant in which the nested entries are looked at first and the       *)
(* top-level key only if none matched                                      *)
SensorTriggeredNestedFirst(g, msg, ord) ==
  LET top == HashMapGet(msg.payload, TriggeredKey)
      r == MotorTriggerLoop(msg.payload, KeysOrder(msg.payload, ord), 1,
                            [trig |-> g.is_triggered, matched |-> FALSE, stop |-> FALSE])
  IN IF r.matched THEN r.trig
     ELSE IF top.some /\ top.v.t = "bool" THEN (top.v.n = 1)
     ELSE (msg.command # "Sensor")

(* is_triggered after a Sensor / SensorLOW message *)
SensorTriggered(g, msg, ord) ==
  LET top == HashMapGet(msg.payload, TriggeredKey) IN
  IF top.some /\ top.v.t = "bool" THEN (top.v.n = 1)
  ELSE LET r == MotorTriggerLoop(msg.payload, KeysOrder(msg.payload, ord), 1,
                                 [trig |-> g.is_triggered, matched |-> FALSE, stop |-> FALSE])
       IN IF r.matched THEN r.trig ELSE (msg.command # "Sensor")

(* a variant that leaves buffer_started set, so that the closing 0x00 also *)
(* opens the next record                                                   *)
CloseDoneStaysStarted(g) == g

(* after send_cobs_motor(..).await? and for every other message:           *)
(* *buffer_started = false, unless the call returned early                 *)
CloseDone(g) ==
  IF g.res # "Ok" THEN g ELSE [g EXCEPT !.buffer_started = FALSE]

(* a variant that does not answer a Sensor / SensorLOW message *)
CloseMessageNoReply(g, dm, wok, ord) ==
  IF dm.tag # "Ok" THEN [g EXCEPT !.res = dm.tag]
  ELSE IF dm.msg.command \in {"Sensor", "SensorLOW"}
       THEN CloseDone([g EXCEPT !.delivered = Append(@, dm.msg),
                                !.process_buf_elapsed_list = PushElapsed(@, 0),
                                !.is_triggered = SensorTriggered(g, dm.msg, ord)])
       ELSE CloseDone([g EXCEPT !.delivered = Append(@, dm.msg),
                                !.process_buf_elapsed_list = PushElapsed(@, 0)])

(* a variant in which every record that is not a sensor record sets        *)
(* is_triggered                                                            *)
CloseMessageTriggersAlways(g, dm, wok, ord) ==
  IF dm.tag # "Ok" THEN [g EXCEPT !.res = dm.tag]
  ELSE IF dm.msg.command \in {"Sensor", "SensorLOW"}
       THEN CloseDone(send_cobs_motor(
              [g EXCEPT !.delivered = Append(@, dm.msg),
                        !.process_buf_elapsed_list = PushElapsed(@, 0),
                        !.is_triggered = SensorTriggered(g, dm.msg, ord)],
              "SEND", "MOTOR", wok))
       ELSE CloseDone([g EXCEPT !.delivered = Append(@, dm.msg),
                                !.process_buf_elapsed_list = PushElapsed(@, 0),
                                !.is_triggered = TRUE])

(* the closing-delimiter branch after decode_message(..)?: dm is its       *)
(* result; a message is delivered, a Sensor / SensorLOW message updates    *)
(* is_triggered and is answered with a SEND/MOTOR frame                    *)
CloseMessage(g, dm, wok, ord) ==
  IF dm.tag # "Ok" THEN [g EXCEPT !.res = dm.tag]
  ELSE IF dm.msg.command \in {"Sensor", "SensorLOW"}
       THEN CloseDone(send_cobs_motor(
              [g EXCEPT !.delivered = Append(@, dm.msg),
                        !.process_buf_elapsed_list = PushElapsed(@, 0),
                        !.is_triggered = SensorTriggered(g, dm.msg, ord)],
              "SEND", "MOTOR", wok))
       ELSE CloseDone([g EXCEPT !.delivered = Append(@, dm.msg),
                                !.process_buf_elapsed_list = PushElapsed(@, 0)])

(* the closing-delimiter branch after decode(..)?: decoded is its result   *)
CloseDecoded(g, decoded, wok, ord) ==
  IF ~decoded.ok THEN [g EXCEPT !.res = "COBSDecode"]
  ELSE CloseMessage(g, decode_message(decoded.dest), wok, ord)

(* the closing-delimiter branch of process_normal_byte *)
CloseFrame(g, t, wok, ord) ==
  CloseDecoded([g EXCEPT !.receive_buf_elapsed_list =
                           PushElapsed(@, t - g.buffer_receive_start_time),
                         !.cobs_log = Append(@, g.buffer)],
               cobs_decode(g.buffer, g.idx - 1), wok, ord)

(* self.reset() at the end of the 0x00 branch, not reached on an error *)
CloseReset(g) == IF g.res # "Ok" THEN g ELSE reset(g)

(* a variant that resets one byte too late *)
OverflowResetLate(g) ==
  IF g.res # "Ok" THEN g
  ELSE IF g.idx > MAX_DATA_LEN THEN reset(g) ELSE g

(* the overflow check that ends process_normal_byte *)
OverflowReset(g) ==
  IF g.res # "Ok" THEN g
  ELSE IF g.idx >= MAX_DATA_LEN THEN reset(g) ELSE g

(* a variant that tells the opening from the closing 0x00 by idx alone *)
process_normal_byte_by_idx(g, byte, t, wok, ord) ==
  IF g.idx >= MAX_DATA_LEN THEN [g EXCEPT !.res = "OutOfBounds"]
  ELSE OverflowReset(
         IF byte = 0
         THEN IF g.idx = 0
              THEN reset([g EXCEPT !.buffer_receive_start_time = t,
                                   !.buffer_started = TRUE])
              ELSE CloseReset(CloseFrame(g, t, wok, ord))
         ELSE [g EXCEPT !.buffer = Append(@, byte), !.idx = @ + 1])

(* a variant in which a 0x00 on an empty started buffer ends the record *)
process_normal_byte_close_empty(g, byte, t, wok, ord) ==
  IF g.idx >= MAX_DATA_LEN THEN [g EXCEPT !.res = "OutOfBounds"]
  ELSE OverflowReset(
         IF byte = 0
         THEN IF ~g.buffer_started
              THEN reset([g EXCEPT !.buffer_receive_start_time = t,
                                   !.buffer_started = TRUE])
              ELSE IF g.idx > 0
                   THEN CloseReset(CloseFrame(g, t, wok, ord))
                   ELSE reset([g EXCEPT !.buffer_started = FALSE])
         ELSE [g EXCEPT !.buffer = Append(@, byte), !.idx = @ + 1])

(* a variant that replaces a CR or LF by 0x00 before it looks at the byte *)
process_normal_byte_crlf_zero(g, byte, t, wok, ord) ==
  IF g.idx >= MAX_DATA_LEN THEN [g EXCEPT !.res = "OutOfBounds"]
  ELSE OverflowReset(
         IF byte = 0 \/ byte = 13 \/ byte = 10
         THEN IF ~g.buffer_started
              THEN reset([g EXCEPT !.buffer_receive_start_time = t,
                                   !.buffer_started = TRUE])
              ELSE IF g.idx > 0
                   THEN CloseReset(CloseFrame(g, t, wok, ord))
                   ELSE reset(g)
         ELSE [g EXCEPT !.buffer = Append(@, byte), !.idx = @ + 1])

(* Giga::process_normal_byte *)
process_normal_byte(g, byte, t, wok, ord) ==
  IF g.idx >= MAX_DATA_LEN THEN [g EXCEPT !.res = "OutOfBounds"]
  ELSE OverflowReset(
         IF byte = 0
         THEN IF ~g.buffer_started
              THEN reset([g EXCEPT !.buffer_receive_start_time = t,
                                   !.buffer_started = TRUE])
              ELSE IF g.idx > 0
                   THEN CloseReset(CloseFrame(g, t, wok, ord))
                   ELSE reset(g)
         ELSE [g EXCEPT !.buffer = Append(@, byte), !.idx = @ + 1])

(* the replay loop of the CheckingDebug mismatch branch: debug_sequence[i] *)
(* for i in 0..match_count, each call ending the handler on an error       *)
RECURSIVE ReplayMarker(_, _, _, _, _, _)
ReplayMarker(g, i, match_count, t, wok, ord) ==
  IF i >= match_count \/ g.res # "Ok" THEN g
  ELSE ReplayMarker(process_normal_byte(g, debug_sequence[i + 1], t, wok, ord),
                    i + 1, match_count, t, wok, ord)

(* the current byte, processed after the replay unless that returned early *)
ReplayCurrent(g, received_byte, t, wok, ord) ==
  IF g.res # "Ok" THEN g ELSE process_normal_byte(g, received_byte, t, wok, ord)

StNormal == [s |-> "Normal", k |-> 0]
StDebug == [s |-> "Debug", k |-> 0]
StChecking(k) == [s |-> "CheckingDebug", k |-> k]

(* a variant in which a byte that is not printable ends the Debug state *)
ListenByteDebugEnds(g, received_byte, t, wok, ord) ==
  CASE g.receive_state.s = "Normal" ->
         IF received_byte = debug_sequence[1]
         THEN [g EXCEPT !.receive_state = StChecking(1)]
         ELSE process_normal_byte(g, received_byte, t, wok, ord)
    [] g.receive_state.s = "CheckingDebug" ->
         LET match_count == g.receive_state.k IN
         IF match_count < Len(debug_sequence)
            /\ received_byte = debug_sequence[match_count + 1]
         THEN IF match_count + 1 = Len(debug_sequence)
              THEN [g EXCEPT !.receive_state = StDebug]
              ELSE [g EXCEPT !.receive_state = StChecking(match_count + 1)]
         ELSE ReplayCurrent(ReplayMarker([g EXCEPT !.receive_state = StNormal],
                                         0, match_count, t, wok, ord),
                            received_byte, t, wok, ord)
    [] OTHER ->
         IF received_byte = 10 \/ received_byte = 13
         THEN [g EXCEPT !.diag = Append(@, g.debug_output), !.debug_output = <<>>,
                        !.receive_state = StNormal]
         ELSE IF received_byte >= 32 /\ received_byte <= 126
              THEN [g EXCEPT !.debug_output = Append(@, received_byte)]
              ELSE [g EXCEPT !.receive_state = StNormal, !.debug_output = <<>>]

(* the Ok(_) arm of listen: one received byte *)
ListenByte(g, received_byte, t, wok, ord) ==
  CASE g.receive_state.s = "Normal" ->
         IF received_byte = debug_sequence[1]
         THEN [g EXCEPT !.receive_state = StChecking(1)]
         ELSE process_normal_byte(g, received_byte, t, wok, ord)
    [] g.receive_state.s = "CheckingDebug" ->
         LET match_count == g.receive_state.k IN
         IF match_count < Len(debug_sequence)
            /\ received_byte = debug_sequence[match_count + 1]
         THEN IF match_count + 1 = Len(debug_sequence)
              THEN [g EXCEPT !.receive_state = StDebug]
              ELSE [g EXCEPT !.receive_state = StChecking(match_count + 1)]
         ELSE ReplayCurrent(ReplayMarker([g EXCEPT !.receive_state = StNormal],
                                         0, match_count, t, wok, ord),
                            received_byte, t, wok, ord)
    [] OTHER ->
         IF received_byte = 10 \/ received_byte = 13
         THEN [g EXCEPT !.diag = Append(@, g.debug_output), !.debug_output = <<>>,
                        !.receive_state = StNormal]
         ELSE IF received_byte = 27
              THEN [g EXCEPT !.receive_state = StNormal, !.debug_output = <<>>]
              ELSE IF received_byte >= 32 /\ received_byte <= 126
                   THEN [g EXCEPT !.debug_output = Append(@, received_byte)]
                   ELSE g

(* a variant that sends the heartbeat in sensor-monitor mode too *)
ListenTimeoutAlways(g, monitor, wok) == send_cobs_motor(g, "READ", "MOTOR", wok)

(* the ErrorKind::TimedOut arm of listen *)
ListenTimeout(g, monitor, wok) ==
  IF ~monitor THEN send_cobs_motor(g, "READ", "MOTOR", wok) ELSE g

(***************************************************************************)
(* Inputs of the model: payloads, frames and device streams                *)
(***************************************************************************)
Text(str) == <<96 + Len(str)>> \o str

PayloadEmpty == <<160>>                                        \* {}
PayloadZero == <<161>> \o Text(<<97>>) \o <<0>>                \* {"a": 0}
PayloadTrig(b) == <<161>> \o Text(TriggeredKey) \o <<IF b THEN 245 ELSE 244>>
PayloadMotors(b1, b2) ==                                       \* {"m": {..}, "n": {..}}
  <<162>> \o Text(<<109>>) \o PayloadTrig(b1) \o Text(<<110>>) \o PayloadTrig(b2)
PayloadMarker == <<161>> \o Text(debug_sequence) \o <<0>>      \* {"[DEBUG]": 0}
PayloadLong ==                                                 \* {"aaa...a": 1}
  <<161, 120, LongTextLen>> \o [i \in 1..LongTextLen |-> 97] \o <<1>>

(* form B on the wire: 0x00, the COBS encoding, 0x00 *)
FormB(action, command, payload) ==
  LET b == build_cobs_frame(action, command, payload) IN
  <<0>> \o SubSeq(b.encoded_frame, 1, b.encoded_size) \o <<0>>

(* the same for an inner record given byte by byte *)
FormBOfInner(inner) == <<0>> \o CobsEncoding(inner) \o <<0>>

(* an inner record: action byte, command byte, declared length, the bytes  *)
(* between the length and the CRC, and the CRC of length and those bytes   *)
InnerOf(abyte, cbyte, declared, body) ==
  <<abyte, cbyte>> \o U16ToLeBytes(declared) \o body
  \o U16ToLeBytes(CRC16_checksum(U16ToLeBytes(declared) \o body))

(* a record with the lowest bit of its last CRC byte changed *)
BadCrcOf(inner) == [inner EXCEPT ![Len(inner)] = FlipBit(@, 0)]

Frame(a, c, p) == [a |-> a, c |-> c, p |-> p]

FrameAck == Frame("GIGA", "ACK", PayloadEmpty)
FrameMotor == Frame("READ", "MOTOR", PayloadZero)
FrameSensor == Frame("GIGA", "Sensor", PayloadTrig(TRUE))
FrameSensorLow == Frame("GIGA", "SensorLOW", PayloadMotors(FALSE, TRUE))
FrameMarker == Frame("SEND", "FILE", PayloadMarker)

(* the record of end-to-end scenario 1: SEND/MOTOR with the empty map *)
FrameSendMotor == Frame("SEND", "MOTOR", PayloadEmpty)

(* a record with CR and LF in its payload: {"\r\n": 10} *)
FrameCrLf == Frame("READ", "FILE", <<161>> \o Text(<<13, 10>>) \o <<10>>)

FrameSpecs == {FrameAck, FrameMotor, FrameSensor, FrameSensorLow, FrameMarker}

(* payloads of sensor frames: up to two entries, in either declared order, *)
(* out of a top-level "triggered" (false, true, 0) and the keys "m" and    *)
(* "n" with the values {"triggered": b}, {"a": 0} and 0                    *)
TopEntries == {Text(TriggeredKey) \o v : v \in {<<244>>, <<245>>, <<0>>}}

NestedEntries(key) ==
  {Text(<<key>>) \o v : v \in {PayloadTrig(FALSE), PayloadTrig(TRUE), PayloadZero, <<0>>}}

SensorPayloads ==
  {PayloadEmpty}
  \cup {<<161>> \o e : e \in TopEntries \cup NestedEntries(109) \cup NestedEntries(110)}
  \cup {<<162>> \o e1 \o e2 : e1 \in TopEntries, e2 \in NestedEntries(109)}
  \cup {<<162>> \o e1 \o e2 : e1 \in NestedEntries(109), e2 \in TopEntries}
  \cup {<<162>> \o e1 \o e2 : e1 \in NestedEntries(109), e2 \in NestedEntries(110)}
  \cup {<<162>> \o e1 \o e2 : e1 \in NestedEntries(110), e2 \in NestedEntries(109)}

SensorFrames == {Frame("GIGA", c, p) : c \in {"Sensor", "SensorLOW"}, p \in SensorPayloads}

FormBOf == [f \in FrameSpecs \cup SensorFrames \cup {FrameCrLf, FrameSendMotor} |-> FormB(f.a, f.c, f.p)]

(* a frame whose bytes do not decode: kind names what is wrong with it *)
BadKinds == {"cobs", "short", "crc", "cbor", "length"}

BadFrame(kind) ==
  CASE kind = "cobs" -> <<0, 5, 1, 2, 0>>
    [] kind = "short" -> <<0, 3, 170, 3, 0>>
    [] kind = "crc" ->
         LET head == <<170, 3>> \o U16ToLeBytes(1) \o PayloadEmpty
             crc == CRC16_checksum(Slice(head, 2, Len(head)))
         IN FormBOfInner(head \o U16ToLeBytes(FlipBit(crc, 0)))
    [] kind = "cbor" -> FormB("SEND", "MOTOR", <<128>>)
    [] kind = "length" ->
         FormBOfInner(InnerOf(ActionAsU8("GIGA"), CommandAsU8("ACK"), 3, <<>>))

BadFrameOf == [k \in BadKinds |-> BadFrame(k)]

DiagTexts == {<<>>, <<104, 105>>}                              \* "", "hi"
DiagEnds == {<<10>>, <<13, 10>>}                               \* LF, CR LF

RECURSIVE SeqsUpTo(_, _)
SeqsUpTo(S, n) ==
  IF n = 0 THEN {<<>>}
  ELSE LET shorter == SeqsUpTo(S, n - 1) IN
       shorter \cup {Append(q, x) : q \in {r \in shorter : Len(r) = n - 1}, x \in S}

(* n bytes 'a' *)
RunOf(n) == [i \in 1..n |-> 97]

(* runs of non-zero bytes that fill the buffer: MAX_DATA_LEN bytes and a   *)
(* few more, and one in which a part of the marker lies across the point   *)
(* where the buffer is full                                                *)
OverflowRuns ==
  {RunOf(MAX_DATA_LEN + r) : r \in 0..MaxOverRun}
  \cup {RunOf(MAX_DATA_LEN - 3) \o SubSeq(debug_sequence, 1, 5) \o RunOf(MaxOverRun)}

(* more frames than an elapsed list holds: a longer one, then short ones *)
ManyFrames ==
  [i \in 1..(ElapsedCap + MaxOverCap) |-> IF i = 1 THEN FrameMotor ELSE FrameAck]

(* pairs of frames sent with additional 0x00 bytes before, between and     *)
(* after them; text holds the three numbers of additional bytes            *)
DelimFrames ==
  {<<FrameAck, FrameMotor>>, <<FrameSensor, FrameAck>>, <<FrameMotor, FrameSensorLow>>}

(* the first k bytes of the marker, then the whole marker, "hi" and LF: the *)
(* '[' of the marker arrives as the byte that does not extend the match    *)
RestartedMarkers ==
  {SubSeq(debug_sequence, 1, k) \o debug_sequence \o <<104, 105, 10>> :
     k \in 1..(Len(debug_sequence) - 1)}

(* bytes received in the Debug state: 0x00, BEL, LF, CR, ESC, 0x1F, space, *)
(* 'h', '~', DEL and 0xFF                                                  *)
DebugBytes == {0, 7, 10, 13, 27, 31, 32, 104, 126, 127, 255}

(* a record whose COBS encoding has more than one code byte without a zero *)
FrameLong == Frame("GIGA", "ACK", PayloadLong)

(* the frame a device sends for it: 0x00, the COBS encoding, 0x00 *)
FormBLong ==
  FormBOfInner(InnerOf(ActionAsU8(FrameLong.a), CommandAsU8(FrameLong.c),
                       Len(FrameLong.p), FrameLong.p))

(* streams given byte by byte: 00 04 AA 03 01 00 A0 BF 3F 00, and the     *)
(* same record with the code byte of its second COBS block and the CRC of  *)
(* its length and payload, 00 04 AA 03 01 04 A0 DF 87 00                   *)
Scenario1Bytes == <<0, 4, 170, 3, 1, 0, 160, 191, 63, 0>>

Scenario1Encoded == <<0, 4, 170, 3, 1, 4, 160, 223, 135, 0>>

Scenarios ==
  [kind : {"frames"}, frames : SeqsUpTo(FrameSpecs, MaxFrames) \ {<<>>},
   text : {<<>>}, bad : {"none"}]
  \cup [kind : {"diag"}, frames : {q \in SeqsUpTo(FrameSpecs, 2) : Len(q) = 2},
        text : {t \o e : t \in DiagTexts, e \in DiagEnds}, bad : {"none"}]
  \cup [kind : {"bad"}, frames : {<<FrameAck>>, <<FrameMotor>>},
        text : {<<>>}, bad : BadKinds]
  \cup [kind : {"overflow", "overflow_open"}, frames : {<<FrameAck>>},
        text : OverflowRuns, bad : {"none"}]
  \cup [kind : {"frames"}, frames : {ManyFrames}, text : {<<>>}, bad : {"none"}]
  \cup [kind : {"delims"}, frames : DelimFrames,
        text : [1..3 -> 0..MaxExtraDelims], bad : {"none"}]
  \cup [kind : {"shared"}, frames : DelimFrames, text : {<<>>}, bad : {"none"}]
  \cup [kind : {"long"}, frames : {<<FrameLong, FrameAck>>}, text : {<<>>}, bad : {"none"}]
  \cup [kind : {"debug"}, frames : {<<FrameAck, FrameMotor>>},
        text : SeqsUpTo(DebugBytes, MaxDebugText), bad : {"none"}]
  \cup [kind : {"remark"}, frames : {<<FrameAck, FrameMotor>>},
        text : RestartedMarkers, bad : {"none"}]
  \cup [kind : {"crlf"},
        frames : {<<FrameCrLf, FrameAck>>, <<FrameAck, FrameCrLf>>, <<FrameCrLf, FrameCrLf>>},
        text : {<<>>, <<13>>, <<10>>, <<13, 10>>}, bad : {"none"}]
  \cup [kind : {"literal"}, frames : {<<FrameSendMotor>>},
        text : {Scenario1Bytes, Scenario1Encoded}, bad : {"none"}]

(* the runs checked with timeouts, read errors and reopening *)
SessionScenarios ==
  {sc \in Scenarios : sc.kind = "frames" /\ Len(sc.frames) = 1}
  \cup {[kind |-> "diag", frames |-> <<FrameAck, FrameSensor>>,
         text |-> <<104, 105, 10>>, bad |-> "none"],
        [kind |-> "bad", frames |-> <<FrameAck>>, text |-> <<>>, bad |-> "crc"],
        [kind |-> "bad", frames |-> <<FrameAck>>, text |-> <<>>, bad |-> "length"]}

(* one sensor frame, as the first frame and after a frame that has set     *)
(* is_triggered                                                            *)
SensorScenarios ==
  [kind : {"frames"},
   frames : {<<f>> : f \in SensorFrames} \cup {<<FrameSensor, f>> : f \in SensorFrames},
   text : {<<>>}, bad : {"none"}]

RECURSIVE Concat(_, _)
Concat(frames, i) ==
  IF i > Len(frames) THEN <<>> ELSE FormBOf[frames[i]] \o Concat(frames, i + 1)

(* the bytes the device sends in a scenario *)
StreamOf(sc) ==
  CASE sc.kind = "frames" -> Concat(sc.frames, 1)
    [] sc.kind = "diag" ->
         FormBOf[sc.frames[1]] \o debug_sequence \o sc.text \o FormBOf[sc.frames[2]]
    [] sc.kind = "bad" -> BadFrameOf[sc.bad] \o FormBOf[sc.frames[1]]
    [] sc.kind = "overflow" -> sc.text \o <<0>> \o FormBOf[sc.frames[1]]
    [] sc.kind = "overflow_open" -> <<0>> \o sc.text \o <<0>> \o FormBOf[sc.frames[1]]
    [] sc.kind = "literal" -> sc.text
    [] sc.kind = "crlf" ->
         FormBOf[sc.frames[1]] \o sc.text \o FormBOf[sc.frames[2]]
    [] sc.kind = "remark" -> FormBOf[sc.frames[1]] \o sc.text \o FormBOf[sc.frames[2]]
    [] sc.kind = "debug" ->
         FormBOf[sc.frames[1]] \o debug_sequence \o sc.text \o <<10>> \o FormBOf[sc.frames[2]]
    [] sc.kind = "long" -> FormBLong \o FormBOf[sc.frames[2]]
    [] sc.kind = "shared" -> FormBOf[sc.frames[1]] \o Tail(FormBOf[sc.frames[2]])
    [] sc.kind = "delims" ->
         Zeros(sc.text[1]) \o FormBOf[sc.frames[1]] \o Zeros(sc.text[2])
         \o FormBOf[sc.frames[2]] \o Zeros(sc.text[3])

(***************************************************************************)
(* serial.rs: open_serial_port, one attempt per step                       *)
(***************************************************************************)
(* a variant in which a reopened port starts with an empty buffer *)
OpenOkEmptyBuffer ==
  /\ pc \in {"new", "reopen"}
  /\ port' = port + 1
  /\ attempts' = attempts + 1
  /\ pc' = "listen"
  /\ event' = "open_ok"
  /\ buffer' = <<>> /\ idx' = 0 /\ buffer_started' = FALSE
  /\ UNCHANGED <<retries, err, cfgVars, buffer_receive_start_time, is_triggered,
                 receive_buf_elapsed_list, process_buf_elapsed_list, receive_state,
                 debug_output, outVars, envVars, codecVars, legacyVars>>

(* serialport::new(..).open() returned Ok(port) *)
OpenOk ==
  /\ pc \in {"new", "reopen"}
  /\ port' = port + 1
  /\ attempts' = attempts + 1
  /\ pc' = "listen"
  /\ event' = "open_ok"
  /\ UNCHANGED <<retries, err, cfgVars, recvVars, outVars, envVars, codecVars, legacyVars>>

(* the attempt failed and retries >= max_retries: return Err *)
OpenGiveUp ==
  /\ pc \in {"new", "reopen"}
  /\ retries >= max_retries
  /\ attempts' = attempts + 1
  /\ pc' = IF pc = "new" THEN "new_failed" ELSE "returned"
  /\ err' = "PortUnavailable"
  /\ event' = "open_failed"
  /\ UNCHANGED <<port, retries, cfgVars, recvVars, outVars, envVars, codecVars, legacyVars>>

(* a variant that allows one retry too many *)
OpenRetryOnceMore ==
  /\ pc \in {"new", "reopen"}
  /\ retries <= max_retries
  /\ retries' = retries + 1
  /\ attempts' = attempts + 1
  /\ event' = "open_retry"
  /\ UNCHANGED <<pc, port, err, cfgVars, recvVars, outVars, envVars, codecVars, legacyVars>>

(* the attempt failed and is retried *)
OpenRetry ==
  /\ pc \in {"new", "reopen"}
  /\ retries < max_retries
  /\ retries' = retries + 1
  /\ attempts' = attempts + 1
  /\ event' = "open_retry"
  /\ UNCHANGED <<pc, port, err, cfgVars, recvVars, outVars, envVars, codecVars, legacyVars>>

(***************************************************************************)
(* Giga::listen, one loop iteration per step                               *)
(***************************************************************************)
IterOrders ==
  {p \in [1..MaxMapEntries -> 1..MaxMapEntries] : \A i, j \in 1..MaxMapEntries : p[i] = p[j] => i = j}

(* the fields of g written back, and where the handler left the loop *)
Install(g) ==
  /\ buffer' = g.buffer
  /\ idx' = g.idx
  /\ buffer_receive_start_time' = g.buffer_receive_start_time
  /\ is_triggered' = g.is_triggered
  /\ buffer_started' = g.buffer_started
  /\ receive_buf_elapsed_list' = g.receive_buf_elapsed_list
  /\ process_buf_elapsed_list' = g.process_buf_elapsed_list
  /\ receive_state' = g.receive_state
  /\ debug_output' = g.debug_output
  /\ written' = g.written
  /\ delivered' = g.delivered
  /\ diag' = g.diag
  /\ cobs_log' = g.cobs_log
  /\ pc' = CASE g.res = "Ok" -> "listen"
             [] g.res \in {"Panic", "OutOfBounds"} -> "panicked"
             [] OTHER -> "returned"
  /\ err' = IF g.res = "Ok" THEN err ELSE g.res

(* self.port.read(&mut buf) returned Ok(_) *)
ReadByte ==
  /\ pc = "listen"
  /\ stream # <<>>
  /\ \E wok \in BOOLEAN, ord \in IterOrders :
       Install(ListenByte(Self, Head(stream), now + 1, wok, ord))
  /\ stream' = Tail(stream)
  /\ now' = now + 1
  /\ event' = "byte"
  /\ UNCHANGED <<portVars, cfgVars, scenario, n_timeouts, n_ioerrors, codecVars, legacyVars>>

(* self.port.read(&mut buf) returned Err of kind TimedOut *)
ReadTimeout ==
  /\ pc = "listen"
  /\ n_timeouts < MaxTimeouts
  /\ \E wok \in BOOLEAN : Install(ListenTimeout(Self, sensor_monitor, wok))
  /\ n_timeouts' = n_timeouts + 1
  /\ event' = "timeout"
  /\ UNCHANGED <<portVars, cfgVars, scenario, stream, now, n_ioerrors, codecVars, legacyVars>>

(* a variant in which listen returns to its caller and leaves the port alone *)
ReadErrorReturns ==
  /\ pc = "listen"
  /\ n_ioerrors < MaxIoErrors
  /\ pc' = "returned"
  /\ n_ioerrors' = n_ioerrors + 1
  /\ event' = "ioerror"
  /\ UNCHANGED <<portVars, err, cfgVars, recvVars, outVars, scenario, stream, now,
                 n_timeouts, codecVars, legacyVars>>

(* self.port.read(&mut buf) returned another Err: listen reopens the port *)
ReadError ==
  /\ pc = "listen"
  /\ n_ioerrors < MaxIoErrors
  /\ pc' = "reopen"
  /\ retries' = 0
  /\ attempts' = 0
  /\ n_ioerrors' = n_ioerrors + 1
  /\ event' = "ioerror"
  /\ UNCHANGED <<port, err, cfgVars, recvVars, outVars, scenario, stream, now, n_timeouts,
                 codecVars, legacyVars>>

(***************************************************************************)
(* The session: Giga::new, then listen                                     *)
(***************************************************************************)
CodecIdle ==
  /\ c_action = "NONE" /\ c_command = "NONE" /\ c_payload = <<>>
  /\ c_stage = "idle" /\ c_built = <<>> /\ c_raw = <<>> /\ c_frame = <<>>
  /\ c_result = <<>> /\ c_flip = <<>>

SessionFresh ==
  /\ buffer = <<>> /\ idx = 0 /\ buffer_receive_start_time = 0
  /\ is_triggered = FALSE /\ buffer_started = FALSE
  /\ receive_buf_elapsed_list = <<>> /\ process_buf_elapsed_list = <<>>
  /\ receive_state = StNormal /\ debug_output = <<>>
  /\ now = 0 /\ written = <<>> /\ delivered = <<>> /\ diag = <<>> /\ cobs_log = <<>>
  /\ event = "init" /\ err = "" /\ n_timeouts = 0 /\ n_ioerrors = 0
  /\ port = 0 /\ retries = 0 /\ attempts = 0

Init ==
  /\ pc = "new"
  /\ max_retries \in 0..MaxRetries
  /\ sensor_monitor \in BOOLEAN
  /\ PortConfig
  /\ LegacyIdle
  /\ scenario \in SessionScenarios
  /\ stream = StreamOf(scenario)
  /\ SessionFresh
  /\ CodecIdle

Next ==
  \/ OpenOk
  \/ OpenGiveUp
  \/ OpenRetry
  \/ ReadByte
  \/ ReadTimeout
  \/ ReadError

Spec == Init /\ [][Next]_vars

(* an open attempt returns: serialport's open() does not block for ever *)
FairSpec == Init /\ [][Next]_vars /\ WF_vars(OpenOk \/ OpenGiveUp \/ OpenRetry)

(***************************************************************************)
(* The receiver alone: listen on an open port that delivers every byte of  *)
(* the stream (no timeout, no read error), over all scenarios              *)
(***************************************************************************)
RecvInit ==
  /\ pc = "listen"
  /\ max_retries = 0
  /\ sensor_monitor = TRUE
  /\ PortConfig
  /\ LegacyIdle
  /\ scenario \in Scenarios
  /\ stream = StreamOf(scenario)
  /\ buffer = <<>> /\ idx = 0 /\ buffer_receive_start_time = 0
  /\ is_triggered = FALSE /\ buffer_started = FALSE
  /\ receive_buf_elapsed_list = <<>> /\ process_buf_elapsed_list = <<>>
  /\ receive_state = StNormal /\ debug_output = <<>>
  /\ now = 0 /\ written = <<>> /\ delivered = <<>> /\ diag = <<>> /\ cobs_log = <<>>
  /\ event = "open_ok" /\ err = "" /\ n_timeouts = 0 /\ n_ioerrors = 0
  /\ port = 1 /\ retries = 0 /\ attempts = 1
  /\ CodecIdle

RecvNext == ReadByte

RecvSpec == RecvInit /\ [][RecvNext]_vars

(***************************************************************************)
(* The receiver alone on sensor frames                                     *)
(***************************************************************************)
SensorInit ==
  /\ pc = "listen"
  /\ max_retries = 0
  /\ sensor_monitor = TRUE
  /\ PortConfig
  /\ LegacyIdle
  /\ scenario \in SensorScenarios
  /\ stream = StreamOf(scenario)
  /\ buffer = <<>> /\ idx = 0 /\ buffer_receive_start_time = 0
  /\ is_triggered = FALSE /\ buffer_started = FALSE
  /\ receive_buf_elapsed_list = <<>> /\ process_buf_elapsed_list = <<>>
  /\ receive_state = StNormal /\ debug_output = <<>>
  /\ now = 0 /\ written = <<>> /\ delivered = <<>> /\ diag = <<>> /\ cobs_log = <<>>
  /\ event = "open_ok" /\ err = "" /\ n_timeouts = 0 /\ n_ioerrors = 0
  /\ port = 1 /\ retries = 0 /\ attempts = 1
  /\ CodecIdle

SensorSpec == SensorInit /\ [][RecvNext]_vars

(***************************************************************************)
(* utils.rs: GigaCommunicate, the receiver of form-A frames                *)
(*                                                                         *)
(* The loop compares the first three bytes with START_BYTE[0..2]; the      *)
(* model takes 0x7E for each of them. CMD is the enum model.rs names       *)
(* Action. g is the record of the fields the loop reads and writes; res is *)
(* "Ok" while the loop runs on, "Done" after the break that follows a      *)
(* frame, "OutOfBounds" for buffer[idx] past the buffer and "Unwrap" for   *)
(* the unwrap() of a failed payload decode.                                *)
(***************************************************************************)
MaxLegacyOver == 3

LegacyStart == <<START_BYTE, START_BYTE, START_BYTE>>

StatusKey == <<115, 116, 97, 116, 117, 115>>

(* serde_cbor::from_slice::<StateMessage>(bytes): a map with one 'status'  *)
(* entry holding a u8, or an array of one u8                               *)
StateMessageFromSlice(bytes) ==
  LET it == CborItem(bytes, 1) IN
  IF ~it.ok \/ it.next # Len(bytes) + 1 THEN [ok |-> FALSE]
  ELSE CASE it.val.t = "map" ->
              LET hits == {i \in 1..Len(it.val.s) :
                             it.val.s[i].k.t = "text" /\ it.val.s[i].k.s = StatusKey} IN
              [ok |-> /\ Cardinality(hits) = 1
                      /\ \A i \in hits : it.val.s[i].v.t = "uint" /\ it.val.s[i].v.n <= 255]
         [] it.val.t = "array" ->
              [ok |-> /\ Len(it.val.s) = 1
                      /\ it.val.s[1].t = "uint" /\ it.val.s[1].n <= 255]
         [] OTHER -> [ok |-> FALSE]

(* GigaCommunicate::reset *)
legacy_reset(g) ==
  [g EXCEPT !.buffer = <<>>, !.idx = 0, !.len_bytes = <<0, 0>>, !.crc_bytes = <<0, 0>>,
            !.payload_size = 0]

(* the arm idx == 8 + payload_size: the record is complete *)
LegacyClose(g) ==
  LET crc == U16FromLeBytes(g.crc_bytes)
      calc_crc == CRC16_checksum(Slice(g.buffer, 5, 7 + g.payload_size))
      command == CommandTryFrom(g.buffer[5]).v
      payload_bytes == Slice(g.buffer, 7, 7 + g.payload_size)
  IN IF crc # calc_crc THEN legacy_reset(g)
     ELSE IF command \in {"Sensor", "SensorLOW"}
          THEN [g EXCEPT !.res = IF StateMessageFromSlice(payload_bytes).ok
                                 THEN "Done" ELSE "Unwrap"]
          ELSE [g EXCEPT !.res = IF serde_cbor_from_slice(payload_bytes).ok
                                 THEN "Done" ELSE "Unwrap"]

(* the length check at idx == 6 *)
LegacyLengthTooLong(size) == size > MAX_DATA_LEN

(* match self.idx { .. }, after the byte was stored at buffer[idx] *)
LegacyMatch(g, byte) ==
  CASE g.idx = 0 ->
         IF byte # LegacyStart[1] THEN legacy_reset(g) ELSE [g EXCEPT !.idx = @ + 1]
    [] g.idx = 1 -> [g EXCEPT !.idx = @ + 1]
    [] g.idx = 2 ->
         IF \E i \in 1..3 : g.buffer[i] # LegacyStart[i]
         THEN legacy_reset(g) ELSE [g EXCEPT !.idx = @ + 1]
    [] g.idx = 3 ->
         IF ActionTryFrom(byte).ok THEN [g EXCEPT !.idx = @ + 1] ELSE legacy_reset(g)
    [] g.idx = 4 ->
         IF CommandTryFrom(byte).ok THEN [g EXCEPT !.idx = @ + 1] ELSE legacy_reset(g)
    [] g.idx = 5 -> [g EXCEPT !.len_bytes[1] = byte, !.idx = @ + 1]
    [] g.idx = 6 ->
         IF LegacyLengthTooLong(U16FromLeBytes(<<g.len_bytes[1], byte>>))
         THEN legacy_reset(g)
         ELSE [g EXCEPT !.len_bytes[2] = byte,
                        !.payload_size = U16FromLeBytes(<<g.len_bytes[1], byte>>),
                        !.idx = @ + 1]
    [] g.idx >= 7 /\ g.idx < 7 + g.payload_size -> [g EXCEPT !.idx = @ + 1]
    [] g.idx >= 7 /\ g.idx = 7 + g.payload_size ->
         [g EXCEPT !.crc_bytes[1] = byte, !.idx = @ + 1]
    [] g.idx >= 7 /\ g.idx = 8 + g.payload_size ->
         LegacyClose([g EXCEPT !.crc_bytes[2] = byte])
    [] OTHER -> [g EXCEPT !.idx = @ + 1]

(* the read_result.is_ok() branch of GigaCommunicate::listen *)
legacy_listen_byte(g, byte) ==
  IF g.idx >= MAX_DATA_LEN THEN [g EXCEPT !.res = "OutOfBounds"]
  ELSE LegacyMatch([g EXCEPT !.buffer = Append(SubSeq(@, 1, g.idx), byte)], byte)

LegacySelf ==
  [buffer |-> buffer, idx |-> idx, len_bytes |-> len_bytes, crc_bytes |-> crc_bytes,
   payload_size |-> payload_size, res |-> "Ok"]

(* a form-A frame as this loop expects it: the start bytes, then the inner *)
(* record                                                                  *)
LegacyFrame(abyte, cbyte, declared, body) == LegacyStart \o InnerOf(abyte, cbyte, declared, body)

(* a CBOR map of n bytes: {} for 1, {"a": 0} for 4, else a text key of     *)
(* n - 5 letters with a two-byte length and the value 1                    *)
LegacyMap(n) ==
  CASE n = 1 -> PayloadEmpty
    [] n = 4 -> PayloadZero
    [] OTHER -> <<161, 121, (n - 5) \div 256, (n - 5) % 256>> \o RunOf(n - 5) \o <<1>>

(* declared lengths: small ones, those around the largest that fits the    *)
(* buffer with header and CRC, and those around MAX_DATA_LEN               *)
LegacyLengths ==
  {1, 4, 24}
  \cup ((MAX_DATA_LEN - 10)..(MAX_DATA_LEN - 9 + MaxLegacyOver))
  \cup {MAX_DATA_LEN, MAX_DATA_LEN + 1}

LegacyGood == LegacyFrame(ActionAsU8("SEND"), CommandAsU8("MOTOR"), 4, PayloadZero)

(* what the device sends: a frame with each declared length and a payload  *)
(* of that length; frames with a wrong start byte, an unknown CMD or       *)
(* command byte or a wrong CRC, each followed by a good frame; frames with *)
(* a Sensor command; a payload that is not CBOR                            *)
LegacyStreams ==
  {LegacyFrame(ActionAsU8("SEND"), CommandAsU8("MOTOR"), n, LegacyMap(n)) \o LegacyGood :
     n \in LegacyLengths}
  \cup {<<126, 1, 126>> \o LegacyGood, <<1>> \o LegacyGood,
        LegacyStart \o <<255>> \o LegacyGood,
        LegacyStart \o <<170, 255>> \o LegacyGood,
        BadCrcOf(LegacyGood) \o LegacyGood,
        LegacyFrame(ActionAsU8("GIGA"), CommandAsU8("Sensor"), 9,
                    <<161>> \o Text(StatusKey) \o <<1>>),
        LegacyFrame(ActionAsU8("GIGA"), CommandAsU8("SensorLOW"), 1, PayloadEmpty),
        LegacyFrame(ActionAsU8("READ"), CommandAsU8("ACK"), 1, <<128>>)}

(* self.port.read(&mut buf) returned Ok(_) *)
LegacyReadByte ==
  /\ pc = "legacy"
  /\ stream # <<>>
  /\ LET g == legacy_listen_byte(LegacySelf, Head(stream)) IN
       /\ buffer' = g.buffer
       /\ idx' = g.idx
       /\ len_bytes' = g.len_bytes
       /\ crc_bytes' = g.crc_bytes
       /\ payload_size' = g.payload_size
       /\ pc' = CASE g.res = "Ok" -> "legacy"
                  [] g.res = "Done" -> "returned"
                  [] OTHER -> "panicked"
       /\ err' = IF g.res \in {"Ok", "Done"} THEN err ELSE g.res
  /\ stream' = Tail(stream)
  /\ now' = now + 1
  /\ event' = "byte"
  /\ UNCHANGED <<portVars, cfgVars, buffer_receive_start_time, is_triggered, buffer_started,
                 receive_buf_elapsed_list, process_buf_elapsed_list, receive_state,
                 debug_output, outVars, scenario, n_timeouts, n_ioerrors, codecVars>>

(* self.port.read(&mut buf) returned Err: the port is reopened with        *)
(* open_serial_port, and listen returns when that fails                    *)
LegacyReadError ==
  /\ pc = "legacy"
  /\ n_ioerrors < MaxIoErrors
  /\ \E opened \in BOOLEAN :
       /\ port' = IF opened THEN port + 1 ELSE port
       /\ pc' = IF opened THEN "legacy" ELSE "returned"
  /\ n_ioerrors' = n_ioerrors + 1
  /\ event' = "ioerror"
  /\ UNCHANGED <<retries, attempts, err, cfgVars, legacyVars, recvVars, outVars, scenario,
                 stream, now, n_timeouts, codecVars>>

LegacyInit ==
  /\ pc = "legacy"
  /\ max_retries = 0
  /\ sensor_monitor = FALSE
  /\ PortConfig
  /\ LegacyIdle
  /\ scenario \in [kind : {"legacy"}, frames : {<<>>}, text : LegacyStreams, bad : {"none"}]
  /\ stream = scenario.text
  /\ buffer = <<>> /\ idx = 0 /\ buffer_receive_start_time = 0
  /\ is_triggered = FALSE /\ buffer_started = FALSE
  /\ receive_buf_elapsed_list = <<>> /\ process_buf_elapsed_list = <<>>
  /\ receive_state = StNormal /\ debug_output = <<>>
  /\ now = 0 /\ written = <<>> /\ delivered = <<>> /\ diag = <<>> /\ cobs_log = <<>>
  /\ event = "open_ok" /\ err = "" /\ n_timeouts = 0 /\ n_ioerrors = 0
  /\ port = 1 /\ retries = 0 /\ attempts = 1
  /\ CodecIdle

LegacyNext ==
  \/ LegacyReadByte
  \/ LegacyReadError

LegacySpec == LegacyInit /\ [][LegacyNext]_vars

(***************************************************************************)
(* The codec alone, as main runs it: build_frame, build_cobs_frame, then   *)
(* decode into a buffer of encoded_size - 1 bytes and decode_message on    *)
(* that buffer. Before decode_message one bit of the inner record may be   *)
(* changed (a transmission error).                                         *)
(***************************************************************************)
CodecActions == {"SEND", "READ", "GIGA"}

CodecPayloads ==
  {PayloadEmpty, PayloadZero, PayloadTrig(TRUE), PayloadMotors(FALSE, TRUE),
   PayloadMarker, PayloadLong}

(* let (frame, _crc) = build_frame(action, command, &payload_cbor) *)
CodecBuildFrame ==
  /\ pc = "codec" /\ c_stage = "idle"
  /\ c_raw' = build_frame(c_action, c_command, c_payload)
  /\ c_stage' = "raw"
  /\ event' = "build_frame"
  /\ UNCHANGED <<pc, err, portVars, cfgVars, legacyVars, recvVars, outVars, envVars,
                 c_action, c_command, c_payload, c_built, c_frame, c_result, c_flip>>

(* let (cobs_frame, _cobs_size, crc) = build_cobs_frame(action, command, &payload_cbor) *)
CodecBuild ==
  /\ pc = "codec" /\ c_stage = "idle"
  /\ c_built' = build_cobs_frame(c_action, c_command, c_payload)
  /\ c_stage' = IF c_built'.panic THEN "panicked" ELSE "built"
  /\ event' = "build_cobs_frame"
  /\ UNCHANGED <<pc, err, portVars, cfgVars, legacyVars, recvVars, outVars, envVars,
                 c_action, c_command, c_payload, c_raw, c_frame, c_result, c_flip>>

(* decoded_frame = vec![0; _cobs_size - 1]; decode(&cobs_frame, &mut decoded_frame)? *)
CodecCobsDecode ==
  /\ pc = "codec" /\ c_stage = "built"
  /\ LET d == cobs_decode(c_built.encoded_frame, c_built.encoded_size - 1) IN
       /\ c_stage' = IF d.ok THEN "inner" ELSE "failed"
       /\ c_frame' = d.dest
  /\ event' = "decode"
  /\ UNCHANGED <<pc, err, portVars, cfgVars, legacyVars, recvVars, outVars, envVars,
                 c_action, c_command, c_payload, c_built, c_raw, c_result, c_flip>>

(* one bit of one byte of the inner record changes on the way *)
CodecFlip ==
  /\ pc = "codec" /\ c_stage = "inner" /\ c_flip = <<>>
  /\ \E i \in 1..Len(c_frame), k \in 0..7 :
       /\ c_frame' = [c_frame EXCEPT ![i] = FlipBit(@, k)]
       /\ c_flip' = <<i, k>>
  /\ event' = "flip"
  /\ UNCHANGED <<pc, err, portVars, cfgVars, legacyVars, recvVars, outVars, envVars,
                 c_action, c_command, c_payload, c_stage, c_built, c_raw, c_result>>

(* decode_message(&decoded_frame) *)
CodecDecode ==
  /\ pc = "codec" /\ c_stage = "inner"
  /\ c_result' = decode_message(c_frame)
  /\ c_stage' = "decoded"
  /\ event' = "decode_message"
  /\ UNCHANGED <<pc, err, portVars, cfgVars, legacyVars, recvVars, outVars, envVars,
                 c_action, c_command, c_payload, c_built, c_raw, c_frame, c_flip>>

CodecInit ==
  /\ pc = "codec"
  /\ max_retries = 0
  /\ sensor_monitor = TRUE
  /\ PortConfig
  /\ LegacyIdle
  /\ scenario = [kind |-> "frames", frames |-> <<>>, text |-> <<>>, bad |-> "none"]
  /\ stream = <<>>
  /\ SessionFresh
  /\ c_action \in CodecActions
  /\ c_command \in Commands
  /\ c_payload \in CodecPayloads
  /\ c_stage = "idle" /\ c_built = <<>> /\ c_raw = <<>> /\ c_frame = <<>>
  /\ c_result = <<>> /\ c_flip = <<>>

CodecNext ==
  \/ CodecBuildFrame
  \/ CodecBuild
  \/ CodecCobsDecode
  \/ CodecFlip
  \/ CodecDecode

CodecSpec == CodecInit /\ [][CodecNext]_vars

(***************************************************************************)
(* build_frame and build_cobs_frame on payloads of given lengths           *)
(***************************************************************************)
MaxLenOver == 1

(* a payload of n bytes with a zero at every 200th byte, so that the COBS  *)
(* encoding is one byte longer than the record                             *)
ZeroedPayload(n) == [i \in 1..n |-> IF i % 200 = 0 THEN 0 ELSE 97]

(* lengths up to the protocol maximum and just above it, around the        *)
(* buffer size, and around 2^16                                            *)
LengthSizes ==
  {0, 1, 2, 255, 256, 257, MAX_DATA_LEN - 7, MAX_DATA_LEN - 6, MAX_DATA_LEN,
   MAX_DATA_LEN + 1}

HugeSizes == 65535..(65536 + MaxLenOver)

LengthInit ==
  /\ pc = "codec"
  /\ max_retries = 0
  /\ sensor_monitor = TRUE
  /\ PortConfig
  /\ LegacyIdle
  /\ scenario = [kind |-> "frames", frames |-> <<>>, text |-> <<>>, bad |-> "none"]
  /\ stream = <<>>
  /\ SessionFresh
  /\ \/ /\ c_action \in CodecActions
        /\ c_command \in {"MOTOR", "Sensor"}
        /\ c_payload \in {ZeroedPayload(n) : n \in LengthSizes} \cup {PayloadLong}
     \/ /\ c_action = "SEND"
        /\ c_command = "MOTOR"
        /\ c_payload \in {ZeroedPayload(n) : n \in HugeSizes}
  /\ c_stage = "idle" /\ c_built = <<>> /\ c_raw = <<>> /\ c_frame = <<>>
  /\ c_result = <<>> /\ c_flip = <<>>

LengthNext ==
  \/ CodecBuildFrame
  \/ CodecBuild

LengthSpec == LengthInit /\ [][LengthNext]_vars

(***************************************************************************)
(* decode_message alone, on inner records given byte by byte               *)
(***************************************************************************)
MaxOverLen == 3

(* every action byte and every command byte, the rest valid or not CBOR *)
HeaderInners ==
  {InnerOf(a, CommandAsU8("ACK"), Len(body), body) :
     a \in 0..255, body \in {PayloadEmpty, <<128>>}}
  \cup {InnerOf(ActionAsU8("GIGA"), c, Len(body), body) :
          c \in 0..255, body \in {PayloadEmpty, <<128>>}}

(* the bytes between the length field and the CRC field: nothing, a map,   *)
(* a map followed by more bytes                                            *)
LengthBodies ==
  {<<>>, PayloadEmpty, PayloadZero, PayloadEmpty \o <<1, 2>>, PayloadZero \o PayloadEmpty}

(* every declared length up to a few more than the bytes there are, and    *)
(* the largest one                                                         *)
LengthInners ==
  {InnerOf(ActionAsU8("GIGA"), CommandAsU8("ACK"), d, body) :
     body \in LengthBodies, d \in 0..(Len(PayloadZero \o PayloadEmpty) + 2 + MaxOverLen)}
  \cup {InnerOf(ActionAsU8("GIGA"), CommandAsU8("ACK"), 65535, body) : body \in LengthBodies}

(* records cut short: the first 0..5 bytes of valid records *)
ShortInners ==
  {SubSeq(InnerOf(ActionAsU8("GIGA"), CommandAsU8("ACK"), Len(body), body), 1, n) :
     body \in {PayloadEmpty, PayloadZero}, n \in 0..5}

(* records whose CRC field does not match: a payload that is a map, one    *)
(* that is not, none, and declared lengths that run past the record        *)
BadCrcInners ==
  {BadCrcOf(InnerOf(ActionAsU8("GIGA"), CommandAsU8("ACK"), Len(body) + over, body)) :
     body \in {<<>>, PayloadEmpty, PayloadZero, <<128>>, <<255>>},
     over \in {0, MaxOverLen}}

DecodeInners == HeaderInners \cup LengthInners \cup ShortInners \cup BadCrcInners

DecodeInit ==
  /\ pc = "codec"
  /\ max_retries = 0
  /\ sensor_monitor = TRUE
  /\ PortConfig
  /\ LegacyIdle
  /\ scenario = [kind |-> "frames", frames |-> <<>>, text |-> <<>>, bad |-> "none"]
  /\ stream = <<>>
  /\ SessionFresh
  /\ c_action = "NONE" /\ c_command = "NONE" /\ c_payload = <<>>
  /\ c_stage = "inner" /\ c_built = <<>> /\ c_raw = <<>>
  /\ c_frame \in DecodeInners
  /\ c_result = <<>> /\ c_flip = <<>>

DecodeNext == CodecDecode

DecodeSpec == DecodeInit /\ [][DecodeNext]_vars

(***************************************************************************)
(* Claims about the codec (checked under CodecSpec)                        *)
(***************************************************************************)
(* the record decode_message returned carries the inputs of the run *)
CodecSameInputs ==
  /\ c_result.tag = "Ok"
  /\ c_result.msg.action = c_action
  /\ c_result.msg.command = c_command
  /\ c_result.msg.payload_bytes = c_payload
  /\ c_result.msg.payload_size = Len(c_payload)
  /\ c_result.msg.crc = c_built.crc

(* C1: round trip. For every action in SEND, READ, GIGA, every command and *)
(* every payload that is a CBOR map, build_cobs_frame returns, and         *)
(* decode_message on its COBS-decoded output succeeds with the same        *)
(* action, command, payload bytes, payload size and CRC.                   *)
C1_RoundTrip ==
  /\ c_stage \notin {"panicked", "failed"}
  /\ (c_stage = "decoded" /\ c_flip = <<>>) => CodecSameInputs

(* C1, the part that holds: whenever build_cobs_frame returns, the round   *)
(* trip reproduces the inputs.                                             *)
C1_RoundTripWhenBuilt ==
  /\ c_stage # "failed"
  /\ (c_stage = "decoded" /\ c_flip = <<>>) => CodecSameInputs

(* C1: the run in which build_cobs_frame does not return *)
C1_Panics == c_stage = "panicked" /\ c_payload = PayloadLong

(* the field of the inner record that byte i (from 1) belongs to *)
FieldOf(i, frame_size) ==
  CASE i = 1 -> "action"
    [] i = 2 -> "command"
    [] i \in {3, 4} -> "length"
    [] i > frame_size - 2 -> "crc"
    [] OTHER -> "payload"

(* the action and the command a byte stands for: NONE when it names none *)
ByteAsAction(b) == IF ActionTryFrom(b).ok THEN ActionTryFrom(b).v ELSE "NONE"

ByteAsCommand(b) == IF CommandTryFrom(b).ok THEN CommandTryFrom(b).v ELSE "NONE"

CrcFieldsWithHeader ==
  <<ActionAsU8(c_action), CommandAsU8(c_command)>>
  \o U16ToLeBytes(Len(c_payload)) \o c_payload

(* the bytes the CRC is computed over in the code *)
CrcFieldsLengthPayload == U16ToLeBytes(Len(c_payload)) \o c_payload

RecordIs(d, f) ==
  /\ d.action = f.a
  /\ d.command = f.c
  /\ d.payload_bytes = f.p
  /\ d.payload_size = Len(f.p)

(* the delivered records are the frames, in their order *)
DeliveredAre(frames) ==
  /\ Len(delivered) = Len(frames)
  /\ \A i \in 1..Len(frames) : RecordIs(delivered[i], frames[i])

(* the receiver before its first byte *)
FreshReceiver ==
  [buffer |-> <<>>, idx |-> 0, buffer_receive_start_time |-> 0,
   is_triggered |-> FALSE, buffer_started |-> FALSE,
   receive_buf_elapsed_list |-> <<>>, process_buf_elapsed_list |-> <<>>,
   receive_state |-> StNormal, debug_output |-> <<>>,
   written |-> <<>>, delivered |-> <<>>, diag |-> <<>>, cobs_log |-> <<>>,
   res |-> "Ok"]

(* listen fed the bytes lo..hi, every write accepted *)
RECURSIVE ListenFold(_, _, _, _)
ListenFold(g, bytes, lo, hi) ==
  IF lo > hi \/ g.res # "Ok" THEN g
  ELSE IF lo = hi
       THEN ListenByte(g, bytes[lo], lo, TRUE, [i \in 1..MaxMapEntries |-> i])
       ELSE LET mid == (lo + hi) \div 2
                m == ListenFold(g, bytes, lo, mid) IN
            IF m.res # "Ok" THEN m ELSE ListenFold(m, bytes, mid + 1, hi)

ListenRun(bytes) == ListenFold(FreshReceiver, bytes, 1, Len(bytes))

(* C4: a frame that fails COBS decoding, is shorter than 6 bytes, fails    *)
(* the CRC check or fails CBOR decoding is dropped: nothing is delivered   *)
(* for it, the buffer is reset, listen keeps running, and the valid frame  *)
(* that follows is delivered.                                              *)
C4_BadFrameDropped ==
  scenario.kind = "bad" =>
    /\ pc = "listen"
    /\ stream = <<>> => (DeliveredAre(scenario.frames) /\ idx = 0)

(* C4, the part that holds: nothing is delivered for the bad frame *)
C4_BadFrameNotDelivered ==
  (scenario.kind = "bad" /\ Len(stream) >= Len(FormBOf[scenario.frames[1]])) =>
    delivered = <<>>

IsReadMotorFrame(w) ==
  /\ Len(w) >= 9 /\ w[1] = 0 /\ w[Len(w)] = 0
  /\ LET d == cobs_decode(SubSeq(w, 2, Len(w) - 1), Len(w) - 2) IN
       /\ d.ok
       /\ d.dest[1] = ActionAsU8("READ")
       /\ d.dest[2] = CommandAsU8("MOTOR")
       /\ U16FromLeBytes(Slice(d.dest, d.frame_size - 2, d.frame_size))
            = CRC16_checksum(Slice(d.dest, 2, d.frame_size - 2))

(* C6: a read timeout with sensor_monitor = false hands exactly one frame  *)
(* with action READ and command MOTOR to the port, and a read timeout with *)
(* sensor_monitor = true hands it nothing.                                 *)
C6_HeartbeatOnTimeout ==
  [][event' = "timeout" =>
       IF sensor_monitor THEN written' = written
       ELSE /\ Len(written') = Len(written) + 1
            /\ SubSeq(written', 1, Len(written)) = written
            /\ IsReadMotorFrame(written'[Len(written')])]_vars

(* C6: a timeout in the middle of a frame has sent the heartbeat *)
C6_HeartbeatSent ==
  /\ event = "timeout" /\ ~sensor_monitor /\ pc = "listen"
  /\ Len(written) = 1 /\ idx > 0

(* C7: a read timeout leaves the receive state, the buffer, idx,           *)
(* buffer_started, the partial diagnostic line and is_triggered unchanged, *)
(* and listen goes on to the next read whatever happens to the heartbeat   *)
(* write.                                                                  *)
C7_TimeoutHarmless ==
  [][event' = "timeout" => (UNCHANGED recvVars /\ pc' = "listen")]_vars

(* C7, the part that holds: the receive state is unchanged *)
C7_TimeoutKeepsReceiveState ==
  [][event' = "timeout" => UNCHANGED recvVars]_vars

(* an open_serial_port call is running *)
Opening == pc \in {"new", "reopen"}

C8_Attempts ==
  /\ attempts <= max_retries + 1
  /\ retries <= max_retries
  /\ Opening => (attempts = retries /\ event # "open_failed")
  /\ event = "open_ok" => attempts = retries + 1
  /\ event = "open_failed" =>
       /\ attempts = max_retries + 1 /\ retries = max_retries
       /\ pc \in {"new_failed", "returned"}

(* C8: open_serial_port terminates; it makes at most max_retries + 1       *)
(* attempts; the first attempt that succeeds ends the call with its        *)
(* handle; it returns an error exactly when max_retries + 1 attempts in a  *)
(* row have failed.                                                        *)
C8_OpenTerminates ==
  /\ []C8_Attempts
  /\ [][(Opening /\ event' = "open_ok") => (pc' = "listen" /\ port' = port + 1)]_vars
  /\ (Opening ~> ~Opening)

(* C8: the call has given up after max_retries + 1 failed attempts *)
C8_GaveUp ==
  event = "open_failed" /\ max_retries >= 1 /\ attempts = max_retries + 1

(* the run is over with every write accepted: the stream is read to its    *)
(* end, or listen has returned or panicked                                 *)
RunOver == err # "Write" /\ (stream = <<>> \/ pc \in {"returned", "panicked"})

(* the diagnostic line of a text: its bytes before the line end *)
DiagLine(text) == SelectSeq(text, LAMBDA b : b # 10 /\ b # 13)

(* C9: frame1, "[DEBUG]" text line-end, frame2 delivers the records that   *)
(* frame1, frame2 delivers, emits one diagnostic line equal to text, and   *)
(* hands to COBS decoding what it hands to it without the diagnostic       *)
(* sequence.                                                               *)
C9_DiagnosticIsolation ==
  (scenario.kind = "diag" /\ RunOver) =>
    LET plain == ListenRun(FormBOf[scenario.frames[1]] \o FormBOf[scenario.frames[2]]) IN
    /\ pc = "listen"
    /\ delivered = plain.delivered
    /\ diag = <<DiagLine(scenario.text)>>
    /\ cobs_log = plain.cobs_log

(* C10: a stream of valid form-B frames, each with its own delimiters, is  *)
(* delivered frame by frame, in order, each frame decoded once.            *)
C10_InOrderDelivery ==
  (scenario.kind = "frames" /\ RunOver) =>
    /\ pc = "listen"
    /\ DeliveredAre(scenario.frames)
    /\ Len(cobs_log) = Len(scenario.frames)

(* C10, the part that holds: frames without the bytes "[DEBUG]" *)
C10_InOrderWithoutMarker ==
  (/\ scenario.kind = "frames" /\ RunOver
   /\ \A i \in 1..Len(scenario.frames) : scenario.frames[i] # FrameMarker) =>
    /\ pc = "listen"
    /\ DeliveredAre(scenario.frames)
    /\ Len(cobs_log) = Len(scenario.frames)

(* C9, the part that holds: frame1 without the bytes "[DEBUG]" *)
C9_IsolationWithoutMarker ==
  (scenario.kind = "diag" /\ RunOver /\ scenario.frames[1] # FrameMarker) =>
    LET plain == ListenRun(FormBOf[scenario.frames[1]] \o FormBOf[scenario.frames[2]]) IN
    /\ pc = "listen"
    /\ delivered = plain.delivered
    /\ diag = <<DiagLine(scenario.text)>>
    /\ cobs_log = plain.cobs_log

(* C11: each time process_normal_byte stores a byte, idx is below          *)
(* MAX_DATA_LEN: no store goes past the buffer, also in the replay of a    *)
(* part of the marker.                                                     *)
C11_NoOutOfBoundsWrite ==
  /\ idx < MAX_DATA_LEN
  /\ Len(buffer) = idx
  /\ err # "OutOfBounds"

(* C11: the buffer was filled and reset while a replayed marker part was   *)
(* being stored                                                            *)
C11_FilledInReplay ==
  /\ scenario.kind \in {"overflow", "overflow_open"}
  /\ scenario.text[MAX_DATA_LEN] = debug_sequence[3]
  /\ Len(stream) = Len(FormBOf[scenario.frames[1]]) + 1
  /\ idx = MaxOverRun + 2 /\ pc = "listen" /\ delivered = <<>>

(* C12: after a run of MAX_DATA_LEN or more non-zero bytes without a       *)
(* closing 0x00 the buffer is reset, nothing is delivered for the run and  *)
(* listen returns no error; after the next 0x00 a following valid form-B   *)
(* frame is delivered; with and without an opening 0x00 before the run,    *)
(* whatever the length of the run.                                         *)
C12_OverflowRecovery ==
  scenario.kind \in {"overflow", "overflow_open"} =>
    /\ pc = "listen"
    /\ Len(stream) >= Len(FormBOf[scenario.frames[1]]) => delivered = <<>>
    /\ stream = <<>> => DeliveredAre(scenario.frames)

(* C12, the part that holds: without an opening 0x00, and with one when    *)
(* the run is a multiple of MAX_DATA_LEN                                   *)
C12_RecoveryWhenNothingLeft ==
  (\/ scenario.kind = "overflow"
   \/ scenario.kind = "overflow_open" /\ Len(scenario.text) % MAX_DATA_LEN = 0) =>
    /\ pc = "listen"
    /\ Len(stream) >= Len(FormBOf[scenario.frames[1]]) => delivered = <<>>
    /\ stream = <<>> => DeliveredAre(scenario.frames)

(* the list after a push that drops the oldest sample of a full list *)
PushedOldestFirst(old, new) ==
  /\ Len(new) >= 1
  /\ SubSeq(new, 1, Len(new) - 1) = (IF Len(old) = ElapsedCap THEN Tail(old) ELSE old)

Min(a, b) == IF a < b THEN a ELSE b

(* C13: each of the two latency lists holds at most 100 samples, the       *)
(* oldest is dropped first, and while listen runs, after n decoded frames  *)
(* each list holds min(n, 100) samples.                                    *)
C13_HistogramBound ==
  /\ [](/\ Len(receive_buf_elapsed_list) <= ElapsedCap
        /\ Len(process_buf_elapsed_list) <= ElapsedCap
        /\ pc = "listen" =>
             /\ Len(receive_buf_elapsed_list) = Min(Len(delivered), ElapsedCap)
             /\ Len(process_buf_elapsed_list) = Min(Len(delivered), ElapsedCap))
  /\ [][/\ receive_buf_elapsed_list' # receive_buf_elapsed_list =>
             PushedOldestFirst(receive_buf_elapsed_list, receive_buf_elapsed_list')
        /\ Len(delivered') > Len(delivered) =>
             /\ PushedOldestFirst(receive_buf_elapsed_list, receive_buf_elapsed_list')
             /\ PushedOldestFirst(process_buf_elapsed_list, process_buf_elapsed_list')]_vars

(* C13: more than 100 frames were decoded and the sample of the first,     *)
(* longer frame has left the list                                          *)
C13_OldestDropped ==
  /\ Len(delivered) = ElapsedCap + 1 /\ pc = "listen"
  /\ Len(receive_buf_elapsed_list) = ElapsedCap
  /\ \A i \in 1..ElapsedCap :
       receive_buf_elapsed_list[i] = Len(FormBOf[FrameAck]) - 1

(* this step delivers a record with command Sensor or SensorLOW *)
SensorStep ==
  /\ Len(delivered') = Len(delivered) + 1
  /\ delivered'[Len(delivered')].command \in {"Sensor", "SensorLOW"}

(* the payload of record m has a top-level boolean 'triggered' *)
HasTopBool(m) ==
  LET top == HashMapGet(m.payload, TriggeredKey) IN top.some /\ top.v.t = "bool"

TopBool(m) == HashMapGet(m.payload, TriggeredKey).v.n = 1

(* the entries of the payload map as its bytes declare them *)
Declared(m) == CborItem(m.payload_bytes, 1).val.s

(* the declared entries whose value is a map with a boolean 'triggered' *)
DeclaredMatches(m) ==
  {i \in 1..Len(Declared(m)) :
     /\ Declared(m)[i].v.t = "map"
     /\ ValueMapGet(Declared(m)[i].v.s, TriggeredKey).some
     /\ ValueMapGet(Declared(m)[i].v.s, TriggeredKey).v.t = "bool"}

NestedBool(m, i) == ValueMapGet(Declared(m)[i].v.s, TriggeredKey).v.n = 1

(* C14: a Sensor / SensorLOW record whose payload has a top-level boolean  *)
(* 'triggered' = b sets is_triggered to b, whatever else the payload holds *)
(* and whichever of the two commands it is.                                *)
C14_TopLevelTriggered ==
  [][SensorStep /\ HasTopBool(delivered'[Len(delivered')]) =>
       is_triggered' = TopBool(delivered'[Len(delivered')])]_vars

(* C14: is_triggered was set, then a SensorLOW record with 'triggered':    *)
(* false at the top and a nested {'triggered': true} cleared it            *)
C14_TopLevelWon ==
  /\ scenario.frames =
       <<FrameSensor,
         Frame("GIGA", "SensorLOW",
               <<162>> \o Text(TriggeredKey) \o <<244>> \o Text(<<109>>) \o PayloadTrig(TRUE))>>
  /\ Len(delivered) = 2
  /\ is_triggered = FALSE

(* the last declared entry that is a map with a boolean 'triggered' *)
LastDeclaredMatch(m) ==
  CHOOSE i \in DeclaredMatches(m) : \A j \in DeclaredMatches(m) : j <= i

(* C15: a Sensor / SensorLOW record without a top-level boolean            *)
(* 'triggered' sets is_triggered to the 'triggered' value of the last      *)
(* entry, in the order the payload declares them, that is a map with a     *)
(* boolean 'triggered': a function of the payload bytes alone.             *)
C15_NestedLastDeclaredWins ==
  [][/\ SensorStep
     /\ ~HasTopBool(delivered'[Len(delivered')])
     /\ DeclaredMatches(delivered'[Len(delivered')]) # {}
     => is_triggered' = NestedBool(delivered'[Len(delivered')],
                                   LastDeclaredMatch(delivered'[Len(delivered')]))]_vars

(* C15: what holds of the nested form: with a single map-valued entry,     *)
(* which has a boolean 'triggered', is_triggered takes its value           *)
C15_SingleNestedEntry ==
  [][/\ SensorStep
     /\ ~HasTopBool(delivered'[Len(delivered')])
     /\ DeclaredMatches(delivered'[Len(delivered')]) # {}
     /\ Cardinality({i \in 1..Len(Declared(delivered'[Len(delivered')])) :
                       Declared(delivered'[Len(delivered')])[i].v.t = "map"}) = 1
     => is_triggered' = NestedBool(delivered'[Len(delivered')],
                                   LastDeclaredMatch(delivered'[Len(delivered')]))]_vars

(* C16: a Sensor / SensorLOW record with neither form of 'triggered' sets  *)
(* is_triggered to false for Sensor and to true for SensorLOW; when a      *)
(* nested entry has a boolean 'triggered' the result is the value of such  *)
(* an entry, not the fallback.                                             *)
C16_LegacyFallback ==
  [][/\ SensorStep
     /\ ~HasTopBool(delivered'[Len(delivered')])
     => IF DeclaredMatches(delivered'[Len(delivered')]) = {}
        THEN is_triggered' = (delivered'[Len(delivered')].command # "Sensor")
        ELSE \E i \in DeclaredMatches(delivered'[Len(delivered')]) :
               is_triggered' = NestedBool(delivered'[Len(delivered')], i)]_vars

(* C16: what holds of the fallback: it is applied when neither form is     *)
(* present                                                                 *)
C16_FallbackWhenNeither ==
  [][/\ SensorStep
     /\ ~HasTopBool(delivered'[Len(delivered')])
     /\ DeclaredMatches(delivered'[Len(delivered')]) = {}
     => is_triggered' = (delivered'[Len(delivered')].command # "Sensor")]_vars

(* a frame on the wire that carries action SEND and command MOTOR with a   *)
(* CRC that matches                                                        *)
IsSendMotorFrame(w) ==
  /\ Len(w) >= 9 /\ w[1] = 0 /\ w[Len(w)] = 0
  /\ LET d == cobs_decode(SubSeq(w, 2, Len(w) - 1), Len(w) - 2) IN
       /\ d.ok
       /\ d.dest[1] = ActionAsU8("SEND")
       /\ d.dest[2] = CommandAsU8("MOTOR")
       /\ U16FromLeBytes(Slice(d.dest, d.frame_size - 2, d.frame_size))
            = CRC16_checksum(Slice(d.dest, 2, d.frame_size - 2))

(* this step hands exactly one SEND/MOTOR frame to the port *)
OneSendMotorWritten ==
  /\ Len(written') = Len(written) + 1
  /\ SubSeq(written', 1, Len(written)) = written
  /\ IsSendMotorFrame(written'[Len(written')])

ActionOfByte(b) ==
  IF \E a \in Actions : ActionAsU8(a) = b
  THEN CHOOSE a \in Actions : ActionAsU8(a) = b ELSE "NONE"

CommandOfByte(b) ==
  IF \E c \in Commands : CommandAsU8(c) = b
  THEN CHOOSE c \in Commands : CommandAsU8(c) = b ELSE "NONE"

(* the same record with a known action byte and a known command byte *)
WithKnownHeader(frame) ==
  <<ActionAsU8("GIGA"), CommandAsU8("ACK")>> \o SubSeq(frame, 3, Len(frame))

(* C18: whatever the action byte and the command byte are, decode_message  *)
(* ends as it does on the same record with a known action and command; a   *)
(* record it returns carries the enum member of each byte, NONE for a byte *)
(* outside the enum.                                                       *)
C18_ReceiverLeniency ==
  (c_stage = "decoded" /\ Len(c_frame) >= 6) =>
    /\ c_result.tag = decode_message(WithKnownHeader(c_frame)).tag
    /\ c_result.tag = "Ok" =>
         c_result.msg = [decode_message(WithKnownHeader(c_frame)).msg
                           EXCEPT !.action = ActionOfByte(c_frame[1]),
                                  !.command = CommandOfByte(c_frame[2])]

(* C18: records with an unknown action byte and with the command bytes 7   *)
(* and 255 were decoded                                                    *)
C18_UnknownByteDecoded ==
  /\ c_stage = "decoded" /\ c_result.tag = "Ok"
  /\ \/ c_frame[1] = 255 /\ c_result.msg.action = "NONE"
     \/ c_frame[2] = 255 /\ c_result.msg.command = "NONE"
     \/ c_frame[2] = 7 /\ c_result.msg.command = "SensorLOW"

(* C19: on an inner record of 6 or more bytes decode_message returns a     *)
(* Message or an error value; it never reads outside the record.           *)
C19_BoundsCheckedLength ==
  (c_stage = "decoded" /\ Len(c_frame) >= 6) => c_result.tag # "Panic"

(* C19: what holds: a declared length of at most n - 4 is never read       *)
(* outside the record                                                      *)
C19_NoPanicWithinFrame ==
  (/\ c_stage = "decoded" /\ Len(c_frame) >= 6
   /\ U16FromLeBytes(<<c_frame[3], c_frame[4]>>) + 4 <= Len(c_frame))
  => c_result.tag # "Panic"

(* C20: when decode_message succeeds on a record of n bytes the declared   *)
(* length is n - 6 and payload_bytes are the bytes between the length      *)
(* field and the CRC field.                                                *)
C20_LengthConsistency ==
  (c_stage = "decoded" /\ c_result.tag = "Ok") =>
    /\ c_result.msg.payload_size = Len(c_frame) - 6
    /\ c_result.msg.payload_bytes = SubSeq(c_frame, 5, Len(c_frame) - 2)

(* C20: what holds: the payload_bytes returned are the declared number of  *)
(* bytes after the length field                                            *)
C20_PayloadIsDeclaredPrefix ==
  (c_stage = "decoded" /\ c_result.tag = "Ok") =>
    /\ c_result.msg.payload_size + 4 <= Len(c_frame)
    /\ c_result.msg.payload_bytes = SubSeq(c_frame, 5, 4 + c_result.msg.payload_size)

(* the last two bytes of the record are the CRC of its bytes from the      *)
(* length field on                                                         *)
CrcIsCorrect(frame) ==
  U16FromLeBytes(SubSeq(frame, Len(frame) - 1, Len(frame)))
    = CRC16_checksum(SubSeq(frame, 3, Len(frame) - 2))

(* C21: decode_message rejects every record shorter than 6 bytes with an   *)
(* error, and accepts a record of exactly 6 bytes whose declared length is *)
(* 0 and whose CRC is correct, returning a record with an empty payload.   *)
C21_MinimumFrame ==
  c_stage = "decoded" =>
    /\ Len(c_frame) < 6 => c_result.tag = "ShortFrame"
    /\ (/\ Len(c_frame) = 6
        /\ U16FromLeBytes(<<c_frame[3], c_frame[4]>>) = 0
        /\ CrcIsCorrect(c_frame))
       => /\ c_result.tag = "Ok"
          /\ c_result.msg.payload_bytes = <<>>
          /\ c_result.msg.payload = <<>>

(* C21: what holds: a record shorter than 6 bytes is rejected as too       *)
(* short, and so is none of 6 bytes or more                                *)
C21_ShortFrameRejected ==
  c_stage = "decoded" => (Len(c_frame) < 6 <=> c_result.tag = "ShortFrame")

(***************************************************************************)
(* Claims about the sender (checked under CodecSpec)                       *)
(***************************************************************************)
NoZeroIn(bytes) == \A i \in 1..Len(bytes) : bytes[i] # 0

(* C22: for every action, command and payload build_cobs_frame completes   *)
(* and the bytes it returns contain no 0x00.                               *)
C22_DelimiterInvariance ==
  c_built # <<>> => ~c_built.panic /\ NoZeroIn(c_built.encoded_frame)

(* C22: what holds: when build_cobs_frame returns, the buffer it returns   *)
(* is filled by the encoding and contains no 0x00                          *)
C22_NoZeroWhenBuilt ==
  (c_built # <<>> /\ ~c_built.panic) =>
    /\ c_built.encoded_size = Len(c_built.encoded_frame)
    /\ NoZeroIn(c_built.encoded_frame)

(***************************************************************************)
(* Claims about delimiters (checked under RecvSpec)                        *)
(***************************************************************************)
(* the bytes of the scenario read so far *)
Consumed == SubSeq(StreamOf(scenario), 1, Len(StreamOf(scenario)) - Len(stream))

(* the last two bytes read were both 0x00 *)
TwoDelimitersRead ==
  /\ Len(Consumed) >= 2
  /\ Consumed[Len(Consumed)] = 0
  /\ Consumed[Len(Consumed) - 1] = 0

EncodedInner(built) == cobs_decode(built.encoded_frame, built.encoded_size - 1).dest

(* C24: for every action, command and payload, build_frame returns 0x7E    *)
(* followed by the inner record that build_cobs_frame COBS-encodes, 7 + N  *)
(* bytes in all, and both functions return the same CRC.                   *)
C24_SameInnerRecord ==
  c_stage = "raw" =>
    /\ Len(c_raw.frame) = 7 + Len(c_payload)
    /\ c_raw.frame[1] = 126
    /\ ~build_cobs_frame(c_action, c_command, c_payload).panic
    /\ build_cobs_frame(c_action, c_command, c_payload).crc = c_raw.crc
    /\ EncodedInner(build_cobs_frame(c_action, c_command, c_payload)) = Tail(c_raw.frame)

(* C24: what holds: the same, whenever build_cobs_frame returns *)
C24_SameInnerWhenBuilt ==
  (c_stage = "raw" /\ ~build_cobs_frame(c_action, c_command, c_payload).panic) =>
    /\ Len(c_raw.frame) = 7 + Len(c_payload)
    /\ c_raw.frame[1] = 126
    /\ build_cobs_frame(c_action, c_command, c_payload).crc = c_raw.crc
    /\ EncodedInner(build_cobs_frame(c_action, c_command, c_payload)) = Tail(c_raw.frame)
    /\ Tail(c_raw.frame) = <<ActionAsU8(c_action), CommandAsU8(c_command)>>
                           \o U16ToLeBytes(Len(c_payload)) \o c_payload
                           \o U16ToLeBytes(c_raw.crc)

(***************************************************************************)
(* Claims about reopening and writing (checked under Spec)                 *)
(***************************************************************************)
(* C25: a reopen after a read error replaces the port handle and nothing   *)
(* else: while open_serial_port runs and when it returns the new handle,   *)
(* port_name, baud_rate, timeout, max_retries, the buffer, idx,            *)
(* buffer_started, the receive state, the latency lists and is_triggered   *)
(* are unchanged; reception goes on from that state, so a frame the error  *)
(* interrupted is delivered.                                               *)
C25_ReopenReplacesOnlyPort ==
  /\ [][/\ (event' = "ioerror" \/ pc = "reopen") => UNCHANGED <<cfgVars, recvVars, outVars>>
        /\ (pc = "reopen" /\ pc' = "listen") => port' # port]_vars
  /\ [](/\ scenario.kind = "frames" /\ scenario.frames # <<FrameMarker>>
        /\ pc = "listen" /\ stream = <<>>
        => DeliveredAre(scenario.frames))

(* C25: the port was reopened in the middle of the second frame of a run,  *)
(* with one record delivered and a latency sample taken before the error   *)
C25_ReopenedWithState ==
  /\ event = "open_ok" /\ n_ioerrors = 1 /\ port = 2 /\ pc = "listen"
  /\ idx > 0 /\ buffer_started
  /\ Len(delivered) = 1 /\ Len(receive_buf_elapsed_list) = 1

(* C26: when write_all or flush fails the error goes to the caller: the    *)
(* port handle, the reassembly buffer, idx, buffer_started, the receive    *)
(* state and the partial diagnostic line are as they were, a heartbeat     *)
(* that fails changes no receive state at all, and the failure is never    *)
(* followed by a reopen of the port.                                       *)
C26_WriteFailureSurfaced ==
  /\ [][(err' = "Write" /\ err # "Write") =>
          /\ pc' = "returned"
          /\ Len(written') = Len(written) + 1
          /\ UNCHANGED <<portVars, cfgVars, buffer, idx, buffer_started, receive_state,
                         debug_output>>
          /\ event' = "timeout" => UNCHANGED recvVars]_vars
  /\ [](err = "Write" => (pc = "returned" /\ event \in {"timeout", "byte"}))

(* C26: a heartbeat write failed in the middle of a frame *)
C26_WriteFailed ==
  /\ err = "Write" /\ pc = "returned" /\ event = "timeout"
  /\ port = 1 /\ idx > 0 /\ Len(written) = 1

(* this step reads a 0x00 in the Normal receive state *)
NormalZeroStep ==
  /\ pc = "listen" /\ event' = "byte"
  /\ receive_state = StNormal
  /\ stream # <<>> /\ Head(stream) = 0 /\ stream' = Tail(stream)

(* C27, as stated: in Normal a 0x00 is an opening delimiter exactly when    *)
(* idx = 0, and a closing delimiter, the accumulated bytes being passed to *)
(* COBS decoding, exactly when idx > 0.                                    *)
C27_OpeningByIdx ==
  [][NormalZeroStep =>
       IF idx = 0
       THEN cobs_log' = cobs_log /\ delivered' = delivered
       ELSE cobs_log' = Append(cobs_log, buffer)]_vars

(* C27, amended: in Normal a 0x00 is an opening delimiter exactly when     *)
(* buffer_started is false, and bytes accumulated before it are discarded  *)
(* without being decoded; when buffer_started is true it is a closing      *)
(* delimiter exactly when idx > 0, and otherwise only resets the buffer;   *)
(* buffer_started is false at the first byte of the stream and after every *)
(* delivered record.                                                       *)
C27_OpeningByBufferStarted ==
  /\ [][NormalZeroStep =>
          /\ ~buffer_started =>
               /\ cobs_log' = cobs_log /\ delivered' = delivered
               /\ buffer_started' /\ idx' = 0 /\ buffer' = <<>>
               /\ buffer_receive_start_time' = now'
          /\ (buffer_started /\ idx > 0) =>
               /\ cobs_log' = Append(cobs_log, buffer)
               /\ pc' = "listen" => (~buffer_started' /\ idx' = 0 /\ buffer' = <<>>)
          /\ (buffer_started /\ idx = 0) =>
               UNCHANGED <<buffer, idx, buffer_started, cobs_log, delivered>>]_vars
  /\ [][(Len(delivered') > Len(delivered) /\ pc' = "listen") => ~buffer_started']_vars
  /\ [](Consumed = <<>> => ~buffer_started)

(* C27: the second of two frames that share one 0x00 was discarded by the  *)
(* 0x00 that follows it                                                    *)
C27_SharedDelimiterDiscards ==
  /\ scenario.kind = "shared" /\ stream = <<>> /\ pc = "listen"
  /\ Len(delivered) = 1 /\ Len(cobs_log) = 1
  /\ buffer_started /\ idx = 0

(***************************************************************************)
(* Claims about the marker and the Debug state (checked under RecvSpec)    *)
(***************************************************************************)
(* C28: when k bytes of the marker are matched and a '[' arrives that does *)
(* not extend the match, the k bytes and the '[' are processed as Normal   *)
(* bytes and the '[' starts a new match: the marker that begins with it is *)
(* recognised, its line is emitted, and both frames are delivered.         *)
C28_MismatchLosesNothing ==
  (scenario.kind = "remark" /\ RunOver) =>
    /\ pc = "listen"
    /\ DeliveredAre(scenario.frames)
    /\ diag = <<<<104, 105>>>>

(* this step reads a non-zero byte that does not extend a match of k bytes *)
MismatchStep ==
  /\ pc = "listen" /\ event' = "byte"
  /\ receive_state.s = "CheckingDebug"
  /\ stream # <<>> /\ stream' = Tail(stream)
  /\ Head(stream) # 0
  /\ Head(stream) # debug_sequence[receive_state.k + 1]

(* C28: what holds: the k matched bytes and then the current byte are      *)
(* stored, in that order, and the state is Normal again, whatever the      *)
(* current byte is                                                         *)
C28_ReplayInOrder ==
  [][(MismatchStep /\ idx + receive_state.k + 1 < MAX_DATA_LEN) =>
       /\ buffer' = buffer \o SubSeq(debug_sequence, 1, receive_state.k) \o <<Head(stream)>>
       /\ idx' = idx + receive_state.k + 1
       /\ receive_state' = StNormal
       /\ pc' = "listen"]_vars

(* this step reads a byte in the Debug state *)
DebugStep ==
  /\ pc = "listen" /\ event' = "byte"
  /\ receive_state = StDebug
  /\ stream # <<>> /\ stream' = Tail(stream)

(* C29: in the Debug state no byte is stored in the reassembly buffer or   *)
(* changes idx; CR or LF emits the accumulated line, clears it and returns *)
(* to Normal; ESC returns to Normal with the line cleared and nothing      *)
(* emitted; a byte 0x20..0x7E is appended to the line; every other byte,   *)
(* 0x00 included, is dropped and the state stays Debug.                    *)
C29_DebugState ==
  [][DebugStep =>
       /\ UNCHANGED <<buffer, idx, buffer_started, delivered, cobs_log, written>>
       /\ pc' = "listen"
       /\ CASE Head(stream) \in {10, 13} ->
                 /\ diag' = Append(diag, debug_output)
                 /\ debug_output' = <<>>
                 /\ receive_state' = StNormal
            [] Head(stream) = 27 ->
                 /\ diag' = diag
                 /\ debug_output' = <<>>
                 /\ receive_state' = StNormal
            [] Head(stream) \in 32..126 ->
                 /\ diag' = diag
                 /\ debug_output' = Append(debug_output, Head(stream))
                 /\ receive_state' = StDebug
            [] OTHER -> UNCHANGED <<diag, debug_output, receive_state>>]_vars

(* C29: in the Debug state, after 'h' was appended, a 0x00 was dropped *)
C29_ZeroDroppedInDebug ==
  /\ scenario.kind = "debug" /\ scenario.text = <<104, 0>>
  /\ receive_state = StDebug /\ debug_output = <<104>>
  /\ Len(Consumed) >= 1 /\ Consumed[Len(Consumed)] = 0
  /\ idx = 0 /\ Len(delivered) = 1

(***************************************************************************)
(* Claims about the bytes handed to decode_message (checked under RecvSpec) *)
(***************************************************************************)
(* C30: a valid frame whose COBS encoding is longer than 254 bytes and has *)
(* more than one code byte without a zero is decoded and delivered: what   *)
(* decode_message is handed is the decoded record without padding; the     *)
(* frame after it is delivered too.                                        *)
C30_DecoderGetsDecodedRecord ==
  scenario.kind = "long" =>
    /\ pc = "listen"
    /\ stream = <<>> => DeliveredAre(scenario.frames)

(* C30: what holds: a delivered record of a frame whose encoding has one   *)
(* code byte per zero carries the CRC bytes the frame ends with, so        *)
(* nothing was handed to decode_message behind the decoded record          *)
C30_NoPaddingWhenShort ==
  (scenario.kind = "frames" /\ Len(scenario.frames) <= MaxFrames) =>
    \A i \in 1..Len(delivered) :
      /\ Len(cobs_log[i]) <= 254
      /\ delivered[i].crc = build_frame(scenario.frames[i].a, scenario.frames[i].c,
                                        scenario.frames[i].p).crc
      /\ delivered[i].payload_bytes = scenario.frames[i].p

(***************************************************************************)
(* Claims about what the session transmits (checked under Spec)            *)
(***************************************************************************)
(* the receiver run r has delivered one record, with command MOTOR and     *)
(* action a, and raised no error                                           *)
DecodedAs(r, a) ==
  /\ r.res = "Ok"
  /\ Len(r.delivered) = 1
  /\ r.delivered[1].action = a
  /\ r.delivered[1].command = "MOTOR"

(* C31: every frame handed to the port is a well-formed record whose       *)
(* payload is a CBOR map: fed to a fresh receiver, a heartbeat is decoded  *)
(* as one READ/MOTOR record and a sensor reply as one SEND/MOTOR record.   *)
C31_TransmittedFrameDecodes ==
  \A i \in 1..Len(written) :
    \/ IsReadMotorFrame(written[i]) /\ DecodedAs(ListenRun(written[i]), "READ")
    \/ IsSendMotorFrame(written[i]) /\ DecodedAs(ListenRun(written[i]), "SEND")

(* the receiver run r has ended at the first frame with a CBOR error *)
RejectedAsCbor(r) == r.res = "CBORDecode" /\ r.delivered = <<>> /\ Len(r.cobs_log) = 1

(* C31: what holds: a transmitted frame carries READ/MOTOR or SEND/MOTOR,  *)
(* the length of its payload and a CRC that matches, and its payload is a  *)
(* CBOR array of two maps, which the receiver rejects                      *)
C31_TransmittedPayloadIsArray ==
  \A i \in 1..Len(written) :
    /\ IsReadMotorFrame(written[i]) \/ IsSendMotorFrame(written[i])
    /\ RejectedAsCbor(ListenRun(written[i]))
    /\ CborItem(MotorPayloadCbor, 1).ok
    /\ CborItem(MotorPayloadCbor, 1).val.t = "array"
    /\ Len(CborItem(MotorPayloadCbor, 1).val.s) = 2
    /\ CborItem(MotorPayloadCbor, 1).next = Len(MotorPayloadCbor) + 1

(***************************************************************************)
(* Claims about the order of the checks in decode_message (DecodeSpec)     *)
(***************************************************************************)
(* C32: a record of 6 or more bytes whose CRC field does not match is      *)
(* always reported as a CRC mismatch, whatever its payload bytes are: the  *)
(* payload is interpreted only after the CRC has been verified.            *)
C32_CrcFirstArbiter ==
  (c_stage = "decoded" /\ Len(c_frame) >= 6 /\ ~CrcIsCorrect(c_frame)) =>
    c_result.tag = "CRCMismatch"

(* C32: what holds: a record whose CRC field does not match is never       *)
(* accepted, and it is reported as a CRC mismatch exactly when its         *)
(* declared length lies within the record and its payload bytes are a      *)
(* CBOR map; the length and the payload are interpreted before the CRC     *)
C32_CrcCheckedLast ==
  (c_stage = "decoded" /\ Len(c_frame) >= 6 /\ ~CrcIsCorrect(c_frame)) =>
    c_result.tag =
      (IF 4 + U16FromLeBytes(<<c_frame[3], c_frame[4]>>) > Len(c_frame) THEN "Panic"
       ELSE IF ~serde_cbor_from_slice(
                  SubSeq(c_frame, 5, 4 + U16FromLeBytes(<<c_frame[3], c_frame[4]>>))).ok
            THEN "CBORDecode"
            ELSE "CRCMismatch")

(***************************************************************************)
(* End-to-end scenario 1 (checked under RecvSpec)                          *)
(***************************************************************************)
(* the stream has delivered exactly the SEND/MOTOR record with an empty    *)
(* payload map so far as it is read, and raised no error                   *)
OneSendMotorRecord ==
  /\ err = "" /\ pc = "listen"
  /\ Len(delivered) <= 1
  /\ written = <<>> /\ diag = <<>>
  /\ stream = <<>> =>
       /\ DeliveredAre(<<FrameSendMotor>>)
       /\ delivered[1].payload = <<>>
       /\ idx = 0

(* C33, as stated: the ten bytes 00 04 AA 03 01 00 A0 BF 3F 00 fed to a    *)
(* fresh receiver deliver exactly one record with action SEND, command     *)
(* MOTOR and an empty payload map, and raise no error.                     *)
C33_Scenario1 ==
  (scenario.kind = "literal" /\ scenario.text = Scenario1Bytes) => OneSendMotorRecord

(* C33, amended: the ten bytes 00 04 AA 03 01 04 A0 DF 87 00, which are    *)
(* form B of SEND/MOTOR with the empty map as build_cobs_frame encodes it, *)
(* fed to a fresh receiver deliver exactly one record with action SEND,    *)
(* command MOTOR and an empty payload map, and raise no error.             *)
C33_Scenario1Encoded ==
  /\ Scenario1Encoded = FormB("SEND", "MOTOR", PayloadEmpty)
  /\ (scenario.kind = "literal" /\ scenario.text = Scenario1Encoded) => OneSendMotorRecord

(* C33: the ten bytes were read and the record was delivered *)
C33_Scenario1Delivered ==
  /\ scenario.kind = "literal" /\ scenario.text = Scenario1Encoded
  /\ stream = <<>> /\ now = 10 /\ pc = "listen"
  /\ Len(delivered) = 1 /\ delivered[1].command = "MOTOR" /\ delivered[1].action = "SEND"
  /\ Len(cobs_log) = 1 /\ ~buffer_started

(***************************************************************************)
(* CR and LF in the Normal state (checked under RecvSpec)                  *)
(***************************************************************************)
(* this step reads a CR or an LF in the Normal receive state *)
CrLfStep ==
  /\ pc = "listen" /\ event' = "byte"
  /\ receive_state = StNormal
  /\ stream # <<>> /\ Head(stream) \in {10, 13} /\ stream' = Tail(stream)

(* C34: a CR or LF received in Normal is stored unchanged in the buffer    *)
(* and advances idx by one like any other non-zero byte; it is not         *)
(* replaced by 0x00 and does not act as a delimiter: nothing is decoded or *)
(* delivered by it and buffer_started keeps its value; a record with CR    *)
(* and LF in its bytes is delivered with them.                             *)
C34_CrLfAreData ==
  /\ [][CrLfStep =>
          /\ pc' = "listen"
          /\ IF idx + 1 >= MAX_DATA_LEN
             THEN buffer' = <<>> /\ idx' = 0
             ELSE buffer' = Append(buffer, Head(stream)) /\ idx' = idx + 1
          /\ UNCHANGED <<buffer_started, buffer_receive_start_time, receive_state,
                         cobs_log, delivered, diag, written, is_triggered,
                         receive_buf_elapsed_list, process_buf_elapsed_list>>]_vars
  /\ []((scenario.kind = "crlf" /\ stream = <<>>) =>
          (pc = "listen" /\ DeliveredAre(scenario.frames)))

(* C34: CR and LF of a record's payload are in the buffer, in their order, *)
(* after a record was delivered                                            *)
C34_CrLfStored ==
  /\ scenario.kind = "crlf" /\ pc = "listen"
  /\ Len(delivered) = 1 /\ buffer_started
  /\ \E i \in 1..(idx - 1) : buffer[i] = 13 /\ buffer[i + 1] = 10

(***************************************************************************)
(* Claims about the form-A receiver of utils.rs (checked under LegacySpec) *)
(***************************************************************************)
(* C35: every declared length the length check lets through keeps all      *)
(* later accesses, up to index 8 + payload_size, below the capacity of the *)
(* buffer, so no byte is stored past it; a longer declared length is       *)
(* rejected with a reset.                                                  *)
C35_LegacyStaysInBuffer ==
  /\ err # "OutOfBounds"
  /\ idx < MAX_DATA_LEN
  /\ idx > 6 => 8 + payload_size < MAX_DATA_LEN

(* C35: what holds: a declared length above MAX_DATA_LEN is rejected with  *)
(* a reset at the second length byte, and a declared length of at most     *)
(* MAX_DATA_LEN - 9 keeps every access inside the buffer                   *)
C35_LegacyLengthAtMostCapacity ==
  /\ idx > 6 => payload_size <= MAX_DATA_LEN
  /\ idx <= 6 => payload_size = 0
  /\ idx <= 8 + payload_size
  /\ err = "OutOfBounds" => (idx = MAX_DATA_LEN /\ payload_size > MAX_DATA_LEN - 9)

(***************************************************************************)
(* Claims about how listen ends (checked under Spec)                       *)
(***************************************************************************)
DecodeErrors == {"COBSDecode", "ShortFrame", "CBORDecode", "CRCMismatch"}

(* this step reads the 0x00 that closes a record *)
ClosingStep ==
  /\ pc = "listen" /\ event' = "byte"
  /\ stream # <<>> /\ Head(stream) = 0
  /\ buffer_started /\ idx > 0
  /\ Len(cobs_log') = Len(cobs_log) + 1

(* the steps that end listen with an error *)
ListenReturnsError ==
  /\ (pc' = "returned" /\ pc = "reopen") =>
       /\ err' = "PortUnavailable" /\ event' = "open_failed"
       /\ attempts' = max_retries + 1 /\ n_ioerrors > 0
  /\ (pc' = "returned" /\ pc = "listen") =>
       /\ err' \in DecodeErrors \cup {"Write"}
       /\ UNCHANGED <<port, retries, attempts, n_ioerrors>>
       /\ receive_state = StNormal => UNCHANGED <<buffer, idx, buffer_started>>
       /\ err' = "Write" =>
            /\ Len(written') = Len(written) + 1
            /\ event' = "timeout" \/ ClosingStep
       /\ err' \in DecodeErrors => (ClosingStep /\ delivered' = delivered)

(* C36: listen never returns Ok: it ends only by returning an error, and   *)
(* only when the port cannot be reopened after max_retries + 1 attempts    *)
(* following a read error, when a write fails, or when the bytes before a  *)
(* closing delimiter fail COBS or record decoding; in the last two cases   *)
(* no reopen is attempted and the buffer, idx and buffer_started are left  *)
(* as they were.                                                           *)
C36_ListenEndsOnlyByError ==
  /\ [](pc \in {"new", "new_failed", "listen", "reopen", "returned"})
  /\ [](pc = "returned" => err \in DecodeErrors \cup {"Write", "PortUnavailable"})
  /\ [][ListenReturnsError]_vars

(* C36: what holds: listen never returns Ok; it returns an error in the    *)
(* three cases, with the buffer, idx and buffer_started left as they were  *)
(* in the last two, or it ends in the panic of decode_message on a record  *)
(* whose declared length runs past it                                      *)
C36_ListenEndsByErrorOrPanic ==
  /\ [](pc = "returned" => err \in DecodeErrors \cup {"Write", "PortUnavailable"})
  /\ [](pc = "panicked" => err = "Panic")
  /\ [][/\ ListenReturnsError
        /\ pc' = "panicked" =>
             (pc = "listen" /\ ClosingStep /\ delivered' = delivered)]_vars

(***************************************************************************)
(* Claims about a shared delimiter (checked under RecvSpec)                *)
(***************************************************************************)
(* the bytes of the second encoding read so far, in 00 X1 00 X2 00 *)
SecondEncodingRead ==
  SubSeq(Consumed, Len(FormBOf[scenario.frames[1]]) + 1, Len(Consumed))

(* C37: in 00 X1 00 X2 00, where two valid encodings share the middle      *)
(* 0x00, only X1 is delivered: after its record buffer_started is false,   *)
(* the bytes of X2 are accumulated and then discarded without an error at  *)
(* the final 0x00, which is taken as an opening delimiter.                 *)
C37_ClosingNotReusedAsOpening ==
  (scenario.kind = "shared" /\ err # "Write") =>
    /\ err = "" /\ pc = "listen"
    /\ Len(Consumed) < Len(FormBOf[scenario.frames[1]]) => delivered = <<>>
    /\ Len(Consumed) >= Len(FormBOf[scenario.frames[1]]) =>
         /\ DeliveredAre(<<scenario.frames[1]>>)
         /\ Len(cobs_log) = 1
         /\ IF stream # <<>>
            THEN ~buffer_started /\ buffer = SecondEncodingRead
            ELSE /\ buffer_started /\ buffer = <<>> /\ idx = 0
                 /\ buffer_receive_start_time = now

(* C37: the bytes of X2 were read after X1 was delivered, and the final    *)
(* 0x00 has opened a new record                                            *)
C37_SecondEncodingDiscarded ==
  /\ scenario.kind = "shared" /\ scenario.frames = <<FrameAck, FrameMotor>>
  /\ stream = <<>> /\ pc = "listen" /\ err = ""
  /\ Len(delivered) = 1 /\ delivered[1].command = "ACK"
  /\ buffer_started /\ idx = 0 /\ buffer_receive_start_time = now

(***************************************************************************)
(* Claims about is_triggered and about writes (checked under Spec)         *)
(***************************************************************************)
(* a record with command Sensor or SensorLOW has been delivered *)
SensorRecordDelivered ==
  \E i \in 1..Len(delivered) : delivered[i].command \in {"Sensor", "SensorLOW"}

(* C38: is_triggered is false after construction and changes only in a     *)
(* step that decodes a record with command Sensor or SensorLOW: no other   *)
(* received byte, no timeout, no reopen, no dropped frame and no record    *)
(* with another command changes it.                                        *)
C38_TriggerOnlyOnSensorRecords ==
  /\ [](~SensorRecordDelivered => ~is_triggered)
  /\ [][is_triggered' # is_triggered => SensorStep]_vars

(* C38: is_triggered was set by a Sensor record and kept over a timeout    *)
(* and a reopen of the port                                                *)
C38_TriggeredKept ==
  /\ is_triggered /\ pc = "listen" /\ event = "open_ok"
  /\ n_ioerrors = 1 /\ n_timeouts = 1 /\ port = 2
  /\ Len(delivered) = 2 /\ delivered[1].command = "ACK" /\ delivered[2].command = "Sensor"

(* this step hands exactly one more frame to the port *)
OneFrameWritten ==
  /\ Len(written') = Len(written) + 1
  /\ SubSeq(written', 1, Len(written)) = written

(* C39: during listen bytes are written to the port only on a read timeout *)
(* with sensor_monitor = false and after a record with command Sensor or   *)
(* SensorLOW has been decoded, one frame each time; a record with another  *)
(* command, a diagnostic line, a dropped run of bytes and a reopen write   *)
(* nothing, and with sensor_monitor = true and no sensor record nothing is *)
(* ever written.                                                           *)
C39_WritesOnlyOnTwoEvents ==
  /\ [][written' # written =>
          /\ OneFrameWritten
          /\ (event' = "timeout" /\ ~sensor_monitor) \/ (event' = "byte" /\ SensorStep)]_vars
  /\ [][(event' = "timeout" /\ sensor_monitor) \/ event' \notin {"timeout", "byte"}
          => written' = written]_vars
  /\ []((sensor_monitor /\ ~SensorRecordDelivered) => written = <<>>)

(* C39: a heartbeat and a sensor reply were written, and a record with     *)
(* another command, a diagnostic line and a reopen wrote nothing           *)
C39_TwoWrites ==
  /\ ~sensor_monitor /\ pc = "listen"
  /\ Len(written) = 2 /\ n_timeouts = 1 /\ n_ioerrors = 1 /\ port = 2
  /\ Len(delivered) = 2 /\ delivered[1].command = "ACK" /\ delivered[2].command = "Sensor"
  /\ diag = <<<<104, 105>>>>

(***************************************************************************)
(* Claims about the length field (checked under LengthSpec)                *)
(***************************************************************************)
(* the two bytes of record at offset off (from 0) are the little-endian    *)
(* encoding of n modulo 2^16, and they are n exactly when n <= 65535       *)
LengthFieldIs(record, off, n) ==
  /\ record[off + 1] = n % 256
  /\ record[off + 2] = (n \div 256) % 256
  /\ (record[off + 1] + 256 * record[off + 2] = n) <=> (n <= 65535)

(* C40: the length bytes build_frame and build_cobs_frame write are the    *)
(* little-endian encoding of the payload length modulo 2^16, equal to the  *)
(* number of payload bytes exactly when that is at most 65535; no payload  *)
(* is rejected for its length, below or above the protocol maximum: the    *)
(* whole payload is in the frame.                                          *)
C40_LengthFieldModulo ==
  /\ c_stage = "raw" =>
       /\ LengthFieldIs(c_raw.frame, 3, Len(c_payload))
       /\ Len(c_raw.frame) = Len(c_payload) + 7
  /\ c_stage = "built" =>
       /\ LengthFieldIs(EncodedInner(c_built), 2, Len(c_payload))
       /\ c_built.encoded_size = Len(c_payload) + 7
  /\ c_stage = "panicked" => c_payload = PayloadLong

(* C40: a payload of 2^16 bytes was built into a form-B frame whose length *)
(* bytes are 00 00                                                         *)
C40_LengthWrapped ==
  /\ c_stage = "built" /\ Len(c_payload) = 65536
  /\ c_built.encoded_size = 65543

====
